---- MODULE Spec2Model ----
(***************************************************************************)
(* Smopsys Q-CORE: the metriplectic memory manager (src/MemoryManager.cpp) *)
(* and the Lindblad matrix engine (src/kernel/lindblad.c,                  *)
(* src/kernel/quantum_laser.c) as state machines.                          *)
(*                                                                         *)
(* Reals.  The source computes on C doubles.  Every real quantity is held  *)
(* here as an integer number of 1/SCALE units (fixed point, rounded to the *)
(* nearest unit), and sin, cos and exp are evaluated by their Taylor       *)
(* series after range reduction.  TLC integers are 32 bits wide, so every  *)
(* product goes through Mul, which splits one operand.                     *)
(***************************************************************************)
EXTENDS Integers, Sequences, FiniteSets, TLC

VARIABLES
    memmgr,       \* the pool: static MemoryManager memmgr
    call,         \* the last pool operation: [op, arg, ret]
    steps,        \* operations performed since the initial state
    returned,     \* every value memory_allocate has returned, in call order
    freed_empty,  \* TRUE once memory_free has hit a record that was Empty
    ledger,       \* the callers' side of the pool: the addresses handed out by
                  \* memory_allocate and not passed to memory_free since, and
                  \* whether memory_free was ever given an address that
                  \* memory_allocate had not returned before
    pc,           \* which driver is running, and its position
    probe,        \* one call of project_memory_state: arguments and result
    lsys,         \* the LindbladSystem the drivers build
    mat,          \* the CMatrix the matrix primitives write into
    lb_call,      \* the last matrix-engine call: what it was asked, what it
                  \* returned, and the largest row and column it wrote
    density,      \* the caller's density matrix rho, which the integrator advances
    ev,           \* lindblad_evolve in progress: its arguments, its local t,
                  \* the steps applied so far and the matrix it was given
    laser,        \* laser_evolve in progress: its arguments and locals, the
                  \* entries of obs[] written so far and the order of the writes
    gop,          \* one call into the operator module: the function, its
                  \* arguments, the 64-bit phase it formed and what it returned
    angle,        \* one update of a theta: the code that made it, theta
                  \* before, the increment, and theta as the update left it
    hb,           \* the heartbeat driver: global_ticks, current_golden_state,
                  \* current_golden_obs, the lines logged, the handler
                  \* invocations so far, and one call of
                  \* metriplectic_heartbeat_wait with its local start_ticks
    vga           \* the VGA driver: vga_row, vga_col, vga_color, the cells of
                  \* vga_buffer that are not blank, the index of the last cell
                  \* a character was stored in

poolVars == <<memmgr, call, returned, freed_empty, ledger>>
engineVars == <<lsys, mat, lb_call>>
evolveVars == <<density, ev, laser>>
operatorVars == <<gop, angle, hb, vga>>
vars == <<memmgr, call, steps, returned, freed_empty, ledger, pc, probe, lsys, mat,
          lb_call, density, ev, laser, gop, angle, hb, vga>>

(* ------------------------------------------------------------------ *)
(* Fixed-point arithmetic                                              *)
(* ------------------------------------------------------------------ *)

\* One real unit: a real x is held as the integer nearest to x * SCALE.
SCALE == 10 * 1000

\* pi, from <math.h> M_PI = 3.14159265..., in 1/SCALE units.
M_PI == 31416

TWO_PI == 2 * M_PI

Abs(x) == IF x < 0 THEN -x ELSE x

\* a / b for b > 0, rounded to the nearest integer, a half away from zero:
\* like the division of doubles, -a / b is -(a / b).
RoundDiv(a, b) ==
    IF a >= 0 THEN (a + b \div 2) \div b ELSE -((b \div 2 - a) \div b)

\* The fixed-point product a * b.  Exact (to rounding) for |b| < 21 * SCALE;
\* like the product of doubles, (-a) * b is -(a * b).
Mul(a, b) ==
    IF (a < 0) = (b < 0)
    THEN (Abs(a) \div SCALE) * Abs(b)
         + RoundDiv((Abs(a) % SCALE) * Abs(b), SCALE)
    ELSE -((Abs(a) \div SCALE) * Abs(b)
           + RoundDiv((Abs(a) % SCALE) * Abs(b), SCALE))

\* Range reduction for sin: r1 in (-pi, pi] is folded into [-pi/2, pi/2].
SinFold(r1) ==
    IF r1 > M_PI \div 2 THEN M_PI - r1
    ELSE IF r1 < -(M_PI \div 2) THEN -M_PI - r1
    ELSE r1

SinReduce(x) ==
    SinFold(IF (x % TWO_PI) > M_PI THEN (x % TWO_PI) - TWO_PI ELSE x % TWO_PI)

\* r * (1 - x2/6 * (1 - x2/20 * (1 - x2/42 * (1 - x2/72)))), x2 = r * r:
\* the Taylor series of sin up to r^9.
SinPoly(r, x2) ==
    Mul(r, SCALE - RoundDiv(Mul(x2,
           SCALE - RoundDiv(Mul(x2,
           SCALE - RoundDiv(Mul(x2,
           SCALE - RoundDiv(x2, 72)), 42)), 20)), 6))

SinTaylor(r) == SinPoly(r, Mul(r, r))

\* sin(x) and cos(x) of <math.h>.
Sin(x) == SinTaylor(SinReduce(x))

Cos(x) == Sin(x + M_PI \div 2)

\* exp(x) for the small arguments the source uses (0 <= x <= 2*pi/300):
\* 1 + x + x^2/2 + x^3/6.
Exp(x) == SCALE + x + RoundDiv(Mul(x, x), 2) + RoundDiv(Mul(Mul(x, x), x), 6)

(* ------------------------------------------------------------------ *)
(* src/MemoryManager.cpp: constants                                    *)
(* ------------------------------------------------------------------ *)

\* PHI 0.18, as hundredths: the phase of page n is pi * (PHI_HUNDREDTHS * n) / 100.
PHI_HUNDREDTHS == 18
\* THERMAL_BATH_TEMP 300.0
THERMAL_BATH_TEMP == 300
\* VISCOSITY_BASE 0.1, in 1/SCALE units.
VISCOSITY_BASE == SCALE \div 10
MAX_MEMORY_PAGES == 256
PAGE_SIZE == 4096
\* MEMORY_BASE 0x100000
MEMORY_BASE == 1048576

MEM_EMPTY == 0
MEM_ALLOCATED == 1
MEM_THERMAL == 2
MEM_EVAPORATING == 3

MemoryState == {MEM_EMPTY, MEM_ALLOCATED, MEM_THERMAL, MEM_EVAPORATING}

PageIdx == 0 .. (MAX_MEMORY_PAGES - 1)

(* ------------------------------------------------------------------ *)
(* src/MemoryManager.cpp: per-page functions                           *)
(* ------------------------------------------------------------------ *)

\* O_n = n * (-1)^n * cos(pi * PHI * n).  The phase is reduced modulo 2*pi
\* exactly (PHI * n modulo 2, in hundredths) before the cosine is taken.
compute_O_n_for_page(page_idx) ==
    page_idx * (IF page_idx % 2 = 1 THEN -1 ELSE 1)
             * Cos(RoundDiv(M_PI * ((PHI_HUNDREDTHS * page_idx) % 200), 100))

\* eta(theta) = eta0 * exp(theta / T) * (1 + 0.5 * sin(pi*theta/(2*pi))).
\* pi*theta/(2*pi) is evaluated as theta/2.
compute_thermal_viscosity(theta) ==
    Mul(Mul(Exp(RoundDiv(theta, THERMAL_BATH_TEMP)), VISCOSITY_BASE),
        SCALE + Sin(theta \div 2) \div 2)

\* project_memory_state with the boundaries included (>= for >).
project_memory_state_Inclusive(O_n, theta) ==
    IF theta >= RoundDiv(5 * M_PI, 4) THEN MEM_EVAPORATING
    ELSE IF theta >= RoundDiv(3 * M_PI, 4) /\ Abs(O_n) >= (3 * SCALE) \div 2 THEN MEM_THERMAL
    ELSE IF theta >= RoundDiv(M_PI, 4) /\ Abs(O_n) >= SCALE \div 2 THEN MEM_ALLOCATED
    ELSE MEM_EMPTY

\* (O_n, theta) -> lifecycle state, by priority.
project_memory_state(O_n, theta) ==
    IF theta > RoundDiv(5 * M_PI, 4) THEN MEM_EVAPORATING
    ELSE IF theta > RoundDiv(3 * M_PI, 4) /\ Abs(O_n) > (3 * SCALE) \div 2 THEN MEM_THERMAL
    ELSE IF theta > RoundDiv(M_PI, 4) /\ Abs(O_n) > SCALE \div 2 THEN MEM_ALLOCATED
    ELSE MEM_EMPTY

\* Keep theta in [0, 2*pi]: two independent tests, each applied once.
WrapHigh(t1) == IF t1 > TWO_PI THEN t1 - TWO_PI ELSE t1

WrapTheta(theta) == WrapHigh(IF theta < 0 THEN theta + TWO_PI ELSE theta)

\* dtheta_ham = (pi/2) * sin(2*theta) * O_n / (total_pages + 1)
DthetaHam(theta, O_n, total_pages) ==
    RoundDiv(Mul(O_n, Mul(Sin(2 * theta), M_PI \div 2)), total_pages + 1)

\* dtheta_diss = eta * (theta_eq - theta) * 0.01, theta_eq = pi
DthetaDiss(theta, eta) == RoundDiv(Mul(eta, M_PI - theta), 100)

\* The tail of metripletic_page_evolution: the fields written once O_n, eta
\* and the new theta are known.
EvolvedPage(p, O_n, eta, theta) ==
    [p EXCEPT !.O_n = O_n,
              !.theta = theta,
              !.state = project_memory_state(O_n, theta),
              !.entropy = RoundDiv(Abs(Sin(theta)) + SCALE \div 10, 4),
              !.thermal_viscosity = eta]

EvolveWith(p, O_n, eta, total_pages) ==
    EvolvedPage(p, O_n, eta,
                WrapTheta(p.theta + DthetaHam(p.theta, O_n, total_pages)
                                  + DthetaDiss(p.theta, eta)))

\* One metriplectic step of page page_idx (record p) in a pool of total_pages.
metripletic_page_evolution(page_idx, p, total_pages) ==
    EvolveWith(p, compute_O_n_for_page(page_idx),
               compute_thermal_viscosity(p.theta), total_pages)

(* ------------------------------------------------------------------ *)
(* src/MemoryManager.cpp: the pool (struct MemoryManager memmgr)       *)
(* ------------------------------------------------------------------ *)

\* uint32_t counters are held as their two's-complement reading: a value
\* v >= 2^31 is held as v - 2^32, so 0 - 1 is held as -1 (0xFFFFFFFF).
\* Unsigned a >= b and a > b, for 0 <= b < 2^31.
U32GE(a, b) == a < 0 \/ a >= b
U32GT(a, b) == a < 0 \/ a > b

\* The value a double takes when divided by the uint32 n (n # 0): a count
\* that wrapped is above 2^31 and the quotient is below one unit.
DivByCount(x, n) == IF n < 0 THEN 0 ELSE RoundDiv(x, n)

RECURSIVE SumRange(_, _, _)
\* The sum of f[i] for lo <= i <= hi (halving, to keep the evaluation shallow).
SumRange(f, lo, hi) ==
    IF lo > hi THEN 0
    ELSE IF lo = hi THEN f[lo]
    ELSE LET mid == (lo + hi) \div 2
         IN  SumRange(f, lo, mid) + SumRange(f, mid + 1, hi)

\* The sum of f[i] over the non-Empty records i of pages.
SumNonEmpty(pages, f) ==
    SumRange([i \in PageIdx |-> IF pages[i].state # MEM_EMPTY THEN f[i] ELSE 0],
             0, MAX_MEMORY_PAGES - 1)

NonEmpty(pages) == {i \in DOMAIN pages : pages[i].state # MEM_EMPTY}

\* memory_init: every slot Empty at theta 0, nothing occupied, aggregates 0.
memory_init ==
    [pages |-> [i \in PageIdx |->
                  [address |-> MEMORY_BASE + i * PAGE_SIZE,
                   size |-> 0,
                   theta |-> 0,
                   O_n |-> 0,
                   state |-> MEM_EMPTY,
                   entropy |-> 0,
                   thermal_viscosity |-> 0]],
     total_pages |-> MAX_MEMORY_PAGES,
     allocated_pages |-> 0,
     centroid_z |-> 0,
     global_theta |-> 0,
     total_entropy |-> 0,
     total_viscosity |-> 0,
     metric_determinant |-> 0,
     curvature |-> 0]

\* z = mean(theta over non-Empty records) / (2*pi); 0 when there is none.
compute_centroid_z(mm) ==
    IF NonEmpty(mm.pages) = {} THEN 0
    ELSE RoundDiv(RoundDiv(SumNonEmpty(mm.pages, [i \in PageIdx |-> mm.pages[i].theta]),
                           Cardinality(NonEmpty(mm.pages))) * SCALE,
                  TWO_PI)

\* The scan loop of memory_allocate: the Empty record of strictly smallest
\* theta below 2*pi + 1, the lowest index winning a tie; index 0 when no
\* record qualifies (best_idx keeps its initial value).
BestScan(mm) ==
    LET cand == {i \in PageIdx : /\ i < mm.total_pages
                                 /\ mm.pages[i].state = MEM_EMPTY
                                 /\ mm.pages[i].theta < TWO_PI + SCALE}
    IN  IF cand = {} THEN 0
        ELSE CHOOSE i \in cand :
               \A j \in cand : \/ mm.pages[i].theta < mm.pages[j].theta
                               \/ (mm.pages[i].theta = mm.pages[j].theta /\ i <= j)

\* Mutant of PoolFull: the bound tested with > instead of >=.
PoolFull_OffByOne(mm) == U32GT(mm.allocated_pages, MAX_MEMORY_PAGES)

\* The exhaustion test of memory_allocate: allocated_pages >= MAX_MEMORY_PAGES.
PoolFull(mm) == U32GE(mm.allocated_pages, MAX_MEMORY_PAGES)

\* The tail of memory_allocate once best_idx is chosen: the record is
\* initialised (theta 0.1, Allocated), the count incremented, the address
\* returned.
AllocateAt(mm, size, best_idx) ==
    [mm  |-> [mm EXCEPT
                !.pages[best_idx] =
                    [@ EXCEPT !.address = MEMORY_BASE + best_idx * PAGE_SIZE,
                              !.size = IF size > PAGE_SIZE THEN PAGE_SIZE ELSE size,
                              !.theta = SCALE \div 10,
                              !.O_n = compute_O_n_for_page(best_idx),
                              !.state = MEM_ALLOCATED],
                !.allocated_pages = mm.allocated_pages + 1],
     ret |-> MEMORY_BASE + best_idx * PAGE_SIZE]

\* memory_allocate(size): the pool after the call and the value returned.
memory_allocate(mm, size) ==
    IF PoolFull(mm)
    THEN [mm |-> mm, ret |-> 0]
    ELSE AllocateAt(mm, size, BestScan(mm))

\* The records whose address field equals address.
AddressHits(mm, address) ==
    {i \in PageIdx : i < mm.total_pages /\ mm.pages[i].address = address}

\* Mutant of memory_free: the slot is given back at once (the count is
\* decremented in memory_free as well).
memory_free_Reclaiming(mm, address) ==
    IF AddressHits(mm, address) = {} THEN mm
    ELSE [mm EXCEPT !.pages[CHOOSE j \in AddressHits(mm, address) :
                               \A k \in AddressHits(mm, address) : j <= k].state
                        = MEM_EVAPORATING,
                    !.allocated_pages = mm.allocated_pages - 1]

\* memory_free(address): the first record with that address is marked
\* Evaporating; nothing else is touched.
memory_free(mm, address) ==
    IF AddressHits(mm, address) = {} THEN mm
    ELSE [mm EXCEPT !.pages[CHOOSE j \in AddressHits(mm, address) :
                               \A k \in AddressHits(mm, address) : j <= k].state
                        = MEM_EVAPORATING]

\* The evaporation check of memory_timestep on the record e as it stands
\* after its dynamics step: Evaporating with theta > 2*pi - 0.1.
EvaporationComplete(e) ==
    e.state = MEM_EVAPORATING /\ e.theta > TWO_PI - SCALE \div 10

ResetIfEvaporated(e) ==
    [page  |-> IF EvaporationComplete(e)
               THEN [e EXCEPT !.state = MEM_EMPTY, !.theta = 0] ELSE e,
     reset |-> EvaporationComplete(e)]

\* Mutant of TickPage: the dynamics step run on every record, Empty or not.
TickPage_All(page_idx, p, total_pages) ==
    ResetIfEvaporated(metripletic_page_evolution(page_idx, p, total_pages))

\* The body of the first loop of memory_timestep for record page_idx: the
\* dynamics step when the record is not Empty, then the evaporation check.
TickPage(page_idx, p, total_pages) ==
    ResetIfEvaporated(IF p.state # MEM_EMPTY
                      THEN metripletic_page_evolution(page_idx, p, total_pages)
                      ELSE p)

\* rho(page) = (size / PAGE_SIZE) * (1 + sin(theta))
PageDensity(p) == Mul(RoundDiv(p.size * SCALE, PAGE_SIZE), SCALE + Sin(p.theta))

\* The tail of update_inverted_geometry, from the summed density.
GeometryFrom(mm, ap, rho_total) ==
    [mm EXCEPT
       !.metric_determinant =
           SCALE + RoundDiv(IF ap # 0 THEN DivByCount(rho_total, ap) ELSE 0, 10),
       !.curvature =
           DivByCount(RoundDiv(IF ap # 0 THEN DivByCount(rho_total, ap) ELSE 0, 10),
                      IF ap # 0 THEN ap ELSE 1)]

\* update_inverted_geometry: the density is summed over the FIRST
\* allocated_pages slots.  When allocated_pages has wrapped, the loop reads
\* past pages[] and the sum is whatever it finds there: indeterminate.
update_inverted_geometry(mm, indeterminate) ==
    GeometryFrom(mm, mm.allocated_pages,
                 IF mm.allocated_pages < 0 THEN indeterminate
                 ELSE SumRange([i \in PageIdx |-> PageDensity(mm.pages[i])],
                               0, mm.allocated_pages - 1))

\* The second half of memory_timestep: the aggregates over the stepped pool.
UpdateObservables(mm) ==
    [mm EXCEPT
       !.centroid_z = compute_centroid_z(mm),
       !.global_theta =
           IF mm.allocated_pages # 0
           THEN DivByCount(SumNonEmpty(mm.pages, [i \in PageIdx |-> mm.pages[i].theta]),
                           mm.allocated_pages)
           ELSE SumNonEmpty(mm.pages, [i \in PageIdx |-> mm.pages[i].theta]),
       !.total_entropy =
           SumNonEmpty(mm.pages, [i \in PageIdx |-> mm.pages[i].entropy]),
       !.total_viscosity =
           IF mm.allocated_pages # 0
           THEN DivByCount(SumNonEmpty(mm.pages,
                                       [i \in PageIdx |-> mm.pages[i].thermal_viscosity]),
                           mm.allocated_pages)
           ELSE SumNonEmpty(mm.pages,
                            [i \in PageIdx |-> mm.pages[i].thermal_viscosity])]

\* The first loop of memory_timestep, given res[i] = TickPage of record i:
\* the records as stepped, and one decrement per record reset.
SteppedPool(mm, res) ==
    [mm EXCEPT !.pages = [i \in PageIdx |-> res[i].page],
               !.allocated_pages =
                   mm.allocated_pages - Cardinality({i \in PageIdx : res[i].reset})]

\* memory_timestep(global_time): every record stepped, then the aggregates.
memory_timestep(mm, indeterminate) ==
    update_inverted_geometry(
        UpdateObservables(
            SteppedPool(mm, [i \in PageIdx |->
                               TickPage(i, mm.pages[i], mm.total_pages)])),
        indeterminate)

\* The pool after memory_init and k calls memory_allocate(size) in a row,
\* k <= MAX_MEMORY_PAGES: call number j (from 0) takes slot j, the lowest
\* Empty slot at theta 0.  (FillMatchesAfterAllocs checks this against the
\* memory_allocate action itself.)
AfterAllocs(k, size) ==
    [memory_init EXCEPT
       !.pages = [i \in PageIdx |->
                    IF i < k
                    THEN [address |-> MEMORY_BASE + i * PAGE_SIZE,
                          size |-> IF size > PAGE_SIZE THEN PAGE_SIZE ELSE size,
                          theta |-> SCALE \div 10,
                          O_n |-> compute_O_n_for_page(i),
                          state |-> MEM_ALLOCATED,
                          entropy |-> 0,
                          thermal_viscosity |-> 0]
                    ELSE memory_init.pages[i]],
       !.allocated_pages = k]

(* ------------------------------------------------------------------ *)
(* One call of project_memory_state                                    *)
(* ------------------------------------------------------------------ *)

ProbeIdle ==
    probe = [O_n |-> 0, theta |-> 0, state |-> MEM_EMPTY, called |-> FALSE]

(* ------------------------------------------------------------------ *)
(* The complex matrix engine (src/kernel/lindblad.c)                   *)
(*                                                                     *)
(* A CMatrix is held as [rows, cols, data]; data maps <<i, j>> to the  *)
(* element data[i][j] for the cells of the rows x cols block that lie  *)
(* inside the array.  Cells of the array outside the block keep what   *)
(* they held; no operation below reads them when its operands conform. *)
(* ------------------------------------------------------------------ *)

LINDBLAD_MAX_DIM == 64

LINDBLAD_MAX_OPS == 8

complex_make(re, im) == [re |-> re, im |-> im]

complex_add(a, b) == complex_make(a.re + b.re, a.im + b.im)

complex_mul(a, b) ==
    complex_make(Mul(a.re, b.re) - Mul(a.im, b.im),
                 Mul(a.re, b.im) + Mul(a.im, b.re))

complex_conj(a) == complex_make(a.re, -a.im)

\* Newton-Raphson from guess = x, a fixed number of rounds.
RECURSIVE NewtonSqrt(_, _, _)
NewtonSqrt(x, guess, rounds) ==
    IF rounds = 0 THEN guess
    ELSE NewtonSqrt(x, RoundDiv(guess + RoundDiv(x * SCALE, guess), 2),
                    rounds - 1)

golden_sqrt(x) == IF x <= 0 THEN 0 ELSE NewtonSqrt(x, x, 20)

Min(a, b) == IF a < b THEN a ELSE b

\* The cells of data[][] that a rows x cols loop nest reaches inside the
\* array.
Stored(rows, cols) ==
    (0 .. Min(rows, LINDBLAD_MAX_DIM) - 1)
       \X (0 .. Min(cols, LINDBLAD_MAX_DIM) - 1)

\* The largest row and column index a rows x cols loop nest writes
\* (-1: it writes nothing).
Extent(rows, cols) ==
    IF rows > 0 /\ cols > 0
    THEN [row |-> rows - 1, col |-> cols - 1]
    ELSE [row |-> -1, col |-> -1]

\* A matrix written by a call, as a value.  The test m = m makes TLC
\* enumerate the elements once; without it every read of an element
\* evaluates the expression that defines it again.
Written(m) == IF m = m THEN m ELSE m

\* A CMatrix in zero-initialised storage.
ZeroStorage == [rows |-> 0, cols |-> 0, data |-> [c \in {} |-> 0]]

cmatrix_zero(m, rows, cols) ==
    [rows |-> rows, cols |-> cols,
     data |-> [c \in Stored(rows, cols) |-> complex_make(0, 0)]]

cmatrix_identity(m, dim) ==
    [rows |-> dim, cols |-> dim,
     data |-> [c \in Stored(dim, dim) |->
                  IF c[1] = c[2] THEN complex_make(SCALE, 0)
                  ELSE complex_make(0, 0)]]

cmatrix_copy(dst, src) ==
    [rows |-> src.rows, cols |-> src.cols,
     data |-> [c \in Stored(src.rows, src.cols) |-> src.data[c]]]

cmatrix_dagger(dst, src) ==
    [rows |-> src.cols, cols |-> src.rows,
     data |-> [c \in Stored(src.cols, src.rows) |->
                  complex_conj(src.data[<<c[2], c[1]>>])]]

\* sum over k >= k0 of A[i][k] * B[k][j].
RECURSIVE RowByColumn(_, _, _, _, _)
RowByColumn(A, B, i, j, k0) ==
    IF k0 >= A.cols THEN complex_make(0, 0)
    ELSE complex_add(complex_mul(A.data[<<i, k0>>], B.data[<<k0, j>>]),
                     RowByColumn(A, B, i, j, k0 + 1))

cmatrix_mul(C, A, B) ==
    Written([rows |-> A.rows, cols |-> B.cols,
     data |-> [c \in Stored(A.rows, B.cols) |->
                  RowByColumn(A, B, c[1], c[2], 0)]])

cmatrix_scale(A, s) ==
    Written([A EXCEPT !.data = [c \in DOMAIN A.data |-> complex_mul(s, A.data[c])]])

complex_sub(a, b) == complex_make(a.re - b.re, a.im - b.im)

complex_scale(a, s) == complex_make(Mul(a.re, s), Mul(a.im, s))

\* The commutator with AB + BA for AB - BA.
cmatrix_commutator_Sum(C, A, B) ==
    Written([rows |-> A.rows, cols |-> A.cols,
     data |-> [c \in Stored(A.rows, A.cols) |->
                  complex_add(RowByColumn(A, B, c[1], c[2], 0),
                              RowByColumn(B, A, c[1], c[2], 0))]])

\* C = AB - BA, on the block of A.
cmatrix_commutator(C, A, B) ==
    Written([rows |-> A.rows, cols |-> A.cols,
     data |-> [c \in Stored(A.rows, A.cols) |->
                  complex_sub(RowByColumn(A, B, c[1], c[2], 0),
                              RowByColumn(B, A, c[1], c[2], 0))]])

\* C = AB + BA, on the block of A.
cmatrix_anticommutator(C, A, B) ==
    Written([rows |-> A.rows, cols |-> A.cols,
     data |-> [c \in Stored(A.rows, A.cols) |->
                  complex_add(RowByColumn(A, B, c[1], c[2], 0),
                              RowByColumn(B, A, c[1], c[2], 0))]])

cmatrix_add(C, A, B) ==
    Written([rows |-> A.rows, cols |-> A.cols,
     data |-> [c \in Stored(A.rows, A.cols) |->
                  complex_add(A.data[c], B.data[c])]])

\* C = A + scale * B.
cmatrix_add_scaled(C, A, B, scale) ==
    Written([rows |-> A.rows, cols |-> A.cols,
     data |-> [c \in Stored(A.rows, A.cols) |->
                  complex_add(A.data[c], complex_mul(scale, B.data[c]))]])

\* sum of A[i][i] for i0 <= i < min(rows, cols).
RECURSIVE DiagonalFrom(_, _)
DiagonalFrom(A, i0) ==
    IF i0 >= Min(A.rows, A.cols) THEN complex_make(0, 0)
    ELSE complex_add(A.data[<<i0, i0>>], DiagonalFrom(A, i0 + 1))

cmatrix_trace(A) == DiagonalFrom(A, 0)

(* ------------------------------------------------------------------ *)
(* The Lindblad system                                                 *)
(* ------------------------------------------------------------------ *)

OpIdx == 0 .. LINDBLAD_MAX_OPS - 1

\* A LindbladSystem in zero-initialised storage.
ZeroSystem ==
    [H |-> ZeroStorage,
     L_ops |-> [k \in OpIdx |-> ZeroStorage],
     L_dag |-> [k \in OpIdx |-> ZeroStorage],
     L_dag_L |-> [k \in OpIdx |-> ZeroStorage],
     num_ops |-> 0,
     dim |-> 0]

lindblad_init(sys, dim) ==
    [sys EXCEPT !.dim = dim, !.num_ops = 0,
                !.H = cmatrix_zero(sys.H, dim, dim)]

lindblad_set_hamiltonian(sys, H) ==
    [sys EXCEPT !.H = cmatrix_copy(sys.H, H)]

\* L_k = sqrt(gamma) * L, written into L_ops[idx].
ScaledJump(sys, idx, L, gamma) ==
    cmatrix_scale(cmatrix_copy(sys.L_ops[idx], L),
                  complex_make(golden_sqrt(gamma), 0))

\* The product cached as L_k times its adjoint.
StoreAdjoints_Reversed(sys, idx, Lk, Ld) ==
    [sys EXCEPT !.L_ops[idx] = Lk,
                !.L_dag[idx] = Ld,
                !.L_dag_L[idx] = cmatrix_mul(sys.L_dag_L[idx], Lk, Ld),
                !.num_ops = sys.num_ops + 1]

\* L_k, then its adjoint, then adjoint times L_k, then the count.
StoreAdjoints(sys, idx, Lk, Ld) ==
    [sys EXCEPT !.L_ops[idx] = Lk,
                !.L_dag[idx] = Ld,
                !.L_dag_L[idx] = cmatrix_mul(sys.L_dag_L[idx], Ld, Lk),
                !.num_ops = sys.num_ops + 1]

StoreJump(sys, idx, Lk) ==
    StoreAdjoints(sys, idx, Lk, cmatrix_dagger(sys.L_dag[idx], Lk))

\* A full list ends the call at once: nothing is written and the function,
\* of type void, hands nothing back.
lindblad_add_jump_operator(sys, L, gamma) ==
    IF sys.num_ops >= LINDBLAD_MAX_OPS THEN sys
    ELSE StoreJump(sys, sys.num_ops, ScaledJump(sys, sys.num_ops, L, gamma))

(* ------------------------------------------------------------------ *)
(* The right-hand side and the RK4 integrator                          *)
(* ------------------------------------------------------------------ *)

\* -i [H, rho]
UnitaryTerm(sys, rho) ==
    cmatrix_scale(cmatrix_commutator(ZeroStorage, sys.H, rho),
                  complex_make(0, -SCALE))

\* L_k rho L_k^dagger - 0.5 {L_k^dagger L_k, rho}
JumpTerm(sys, rho, k) ==
    cmatrix_add_scaled(
        ZeroStorage,
        cmatrix_mul(ZeroStorage,
                    cmatrix_mul(ZeroStorage, sys.L_ops[k], rho),
                    sys.L_dag[k]),
        cmatrix_anticommutator(ZeroStorage, sys.L_dag_L[k], rho),
        complex_make(-(SCALE \div 2), 0))

\* The accumulation loop over k0 <= k < num_ops, starting from acc.
RECURSIVE DissipativeFrom(_, _, _, _)
DissipativeFrom(sys, rho, k0, acc) ==
    IF k0 >= sys.num_ops THEN acc
    ELSE DissipativeFrom(sys, rho, k0 + 1,
                         cmatrix_add(acc, acc, JumpTerm(sys, rho, k0)))

\* [unitary_term, dissipative_term]
lindblad_compute_terms(sys, rho) ==
    [unitary |-> UnitaryTerm(sys, rho),
     dissipative |->
        DissipativeFrom(sys, rho, 0,
                        cmatrix_zero(ZeroStorage, sys.dim, sys.dim))]

SumOfTerms(terms) ==
    cmatrix_add(ZeroStorage, terms.unitary, terms.dissipative)

lindblad_rhs(sys, rho) == SumOfTerms(lindblad_compute_terms(sys, rho))

\* rho + dt/6 * (k1 + 2 k2 + 2 k3 + k4) on the dim x dim block of a copy of
\* rho.
WeightedSum(k1, k2, k3, k4, c) ==
    complex_add(
        complex_add(k1.data[c], complex_scale(k2.data[c], 2 * SCALE)),
        complex_add(complex_scale(k3.data[c], 2 * SCALE), k4.data[c]))

Rk4Result(dim, rho, dt, k1, k2, k3, k4) ==
    Written([rows |-> rho.rows, cols |-> rho.cols,
     data |-> [c \in Stored(rho.rows, rho.cols) |->
                  IF c[1] < dim /\ c[2] < dim
                  THEN complex_add(
                          rho.data[c],
                          complex_mul(complex_make(RoundDiv(dt, 6), 0),
                                      WeightedSum(k1, k2, k3, k4, c)))
                  ELSE rho.data[c]]])

Rk4Stage4(sys, rho, dt, k1, k2, k3) ==
    Rk4Result(sys.dim, rho, dt, k1, k2, k3,
        lindblad_rhs(sys, cmatrix_add_scaled(ZeroStorage, rho, k3,
                                             complex_make(dt, 0))))

Rk4Stage3(sys, rho, dt, k1, k2) ==
    Rk4Stage4(sys, rho, dt, k1, k2,
        lindblad_rhs(sys, cmatrix_add_scaled(ZeroStorage, rho, k2,
                                             complex_make(RoundDiv(dt, 2), 0))))

Rk4Stage2(sys, rho, dt, k1) ==
    Rk4Stage3(sys, rho, dt, k1,
        lindblad_rhs(sys, cmatrix_add_scaled(ZeroStorage, rho, k1,
                                             complex_make(RoundDiv(dt, 2), 0))))

lindblad_step_rk4(sys, rho, dt) ==
    Rk4Stage2(sys, rho, dt, lindblad_rhs(sys, rho))

(* ------------------------------------------------------------------ *)
(* Operator builders of the laser model (src/kernel/quantum_laser.c)   *)
(* ------------------------------------------------------------------ *)

\* C = A (x) B: C[i*rb + k][j*cb + l] = A[i][j] * B[k][l].
kronecker(C, A, B) ==
    [rows |-> A.rows * B.rows, cols |-> A.cols * B.cols,
     data |-> [c \in Stored(A.rows * B.rows, A.cols * B.cols) |->
                  complex_mul(A.data[<<c[1] \div B.rows, c[2] \div B.cols>>],
                              B.data[<<c[1] % B.rows, c[2] % B.cols>>])]]

\* a|n> = sqrt(n)|n-1>: a[n-1][n] = sqrt(n) for 1 <= n < dim_cavity.
create_annihilation_cavity(a, dim_cavity) ==
    [rows |-> dim_cavity, cols |-> dim_cavity,
     data |-> [c \in Stored(dim_cavity, dim_cavity) |->
                  IF c[2] = c[1] + 1
                  THEN complex_make(golden_sqrt(c[2] * SCALE), 0)
                  ELSE complex_make(0, 0)]]

\* I_atom (x) a_cavity; the two factors are locals of the function.
laser_create_annihilation(a_total, dim_atom, dim_cavity) ==
    kronecker(a_total,
              cmatrix_identity(ZeroStorage, dim_atom),
              create_annihilation_cavity(ZeroStorage, dim_cavity))

laser_create_creation(a_dag_total, dim_atom, dim_cavity) ==
    cmatrix_dagger(a_dag_total,
                   laser_create_annihilation(ZeroStorage, dim_atom, dim_cavity))

\* sigma_ij = |i><j|, the zero matrix when i or j is no level of the atom.
create_sigma_atom(sigma, i, j, dim_atom) ==
    [rows |-> dim_atom, cols |-> dim_atom,
     data |-> [c \in Stored(dim_atom, dim_atom) |->
                  IF i < dim_atom /\ j < dim_atom /\ c = <<i, j>>
                  THEN complex_make(SCALE, 0) ELSE complex_make(0, 0)]]

laser_create_sigma(sigma_total, i, j, dim_atom, dim_cavity) ==
    Written(kronecker(sigma_total,
                      create_sigma_atom(ZeroStorage, i, j, dim_atom),
                      cmatrix_identity(ZeroStorage, dim_cavity)))

laser_create_number(N, dim_atom, dim_cavity) ==
    cmatrix_mul(N,
        Written(laser_create_creation(ZeroStorage, dim_atom, dim_cavity)),
        Written(laser_create_annihilation(ZeroStorage, dim_atom, dim_cavity)))

\* The values laser_params_default sets, except the dimensions and the time
\* grid.
LaserParams(dim_atom, dim_cavity, t_start, t_end, dt) ==
    [dim_atom |-> dim_atom, dim_cavity |-> dim_cavity,
     omega_atom |-> SCALE, omega_cavity |-> SCALE,
     g |-> SCALE \div 10,
     kappa |-> SCALE \div 20,
     pump_rate |-> SCALE \div 5,
     gamma_32 |-> SCALE,
     gamma_21 |-> SCALE \div 100,
     gamma_10 |-> SCALE,
     t_start |-> t_start, t_end |-> t_end, dt |-> dt]

\* term1 = omega_cavity * a^dagger a
LaserTerm1(p) ==
    cmatrix_scale(
        cmatrix_copy(ZeroStorage,
                     laser_create_number(ZeroStorage, p.dim_atom, p.dim_cavity)),
        complex_make(p.omega_cavity, 0))

\* term2 = omega_atom * |2><2|
LaserTerm2(p) ==
    cmatrix_scale(
        cmatrix_copy(ZeroStorage,
                     laser_create_sigma(ZeroStorage, 2, 2, p.dim_atom,
                                        p.dim_cavity)),
        complex_make(p.omega_atom, 0))

\* term3 = g * (a^dagger sigma_12 + a sigma_21)
LaserTerm3(p, a, a_dag, sigma_12, sigma_21) ==
    cmatrix_scale(
        cmatrix_add(ZeroStorage,
                    cmatrix_copy(ZeroStorage,
                                 cmatrix_mul(ZeroStorage, a_dag, sigma_12)),
                    cmatrix_mul(ZeroStorage, a, sigma_21)),
        complex_make(p.g, 0))

LaserHamiltonian(p, a, sigma_12) ==
    cmatrix_add(ZeroStorage,
        cmatrix_add(ZeroStorage, LaserTerm1(p), LaserTerm2(p)),
        LaserTerm3(p, a,
                   Written(laser_create_creation(ZeroStorage, p.dim_atom,
                                                 p.dim_cavity)),
                   sigma_12,
                   laser_create_sigma(ZeroStorage, 2, 1, p.dim_atom,
                                      p.dim_cavity)))

\* The five jump operators, in the order they are registered.
LaserJumps(p, sys, a, sigma_12) ==
    lindblad_add_jump_operator(
      lindblad_add_jump_operator(
        lindblad_add_jump_operator(
          lindblad_add_jump_operator(
            lindblad_add_jump_operator(sys, a, p.kappa),
            laser_create_sigma(ZeroStorage, 3, 0, p.dim_atom, p.dim_cavity),
            p.pump_rate),
          laser_create_sigma(ZeroStorage, 2, 3, p.dim_atom, p.dim_cavity),
          p.gamma_32),
        sigma_12, p.gamma_21),
      laser_create_sigma(ZeroStorage, 0, 1, p.dim_atom, p.dim_cavity),
      p.gamma_10)

LaserSystem(p, sys, a, sigma_12) ==
    LaserJumps(p,
        lindblad_set_hamiltonian(
            lindblad_init(sys, p.dim_atom * p.dim_cavity),
            LaserHamiltonian(p, a, sigma_12)),
        a, sigma_12)

\* rho0 = |0,0><0,0|
LaserGround(dim) ==
    [rows |-> dim, cols |-> dim,
     data |-> [c \in Stored(dim, dim) |->
                  IF c = <<0, 0>> THEN complex_make(SCALE, 0)
                  ELSE complex_make(0, 0)]]

\* [sys, rho0]
laser_build_system(p, sys) ==
    [sys |-> LaserSystem(p, sys,
                 Written(laser_create_annihilation(ZeroStorage, p.dim_atom,
                                                   p.dim_cavity)),
                 laser_create_sigma(ZeroStorage, 1, 2, p.dim_atom,
                                    p.dim_cavity)),
     rho0 |-> LaserGround(p.dim_atom * p.dim_cavity)]

\* <O> = Tr(rho O)
lindblad_expect(rho, O) == cmatrix_trace(cmatrix_mul(ZeroStorage, rho, O))

\* trace, purity Tr(rho^2) and the entropy 1 - purity.
PurityOf(rho) == cmatrix_trace(cmatrix_mul(ZeroStorage, rho, rho)).re

lindblad_compute_state(rho) ==
    [rho |-> cmatrix_copy(ZeroStorage, rho),
     trace |-> cmatrix_trace(rho).re,
     purity |-> PurityOf(rho),
     entropy |-> SCALE - PurityOf(rho)]

\* P_i = Tr(rho |i><i|)
Population(p, rho, i) ==
    lindblad_expect(rho, laser_create_sigma(ZeroStorage, i, i, p.dim_atom,
                                            p.dim_cavity)).re

\* The fields of LaserState that laser_evolve reads.
laser_compute_observables(p, rho) ==
    [n_photons |->
        lindblad_expect(rho, laser_create_number(ZeroStorage, p.dim_atom,
                                                 p.dim_cavity)).re,
     inversion |-> Population(p, rho, 2) - Population(p, rho, 1),
     purity |-> lindblad_compute_state(rho).purity]

EngineIdle ==
    /\ lsys = ZeroSystem
    /\ mat = ZeroStorage
    /\ lb_call = [op |-> "none", req |-> <<0, 0>>, num_ops |-> 0,
                  ret |-> "void", max_row |-> -1, max_col |-> -1]

\* laser_evolve not entered.
LaserIdle ==
    [p |-> LaserParams(0, 0, 0, 0, 0), num_samples |-> 0, t |-> 0,
     dt_sample |-> 0, sample_idx |-> 0, next_sample |-> 0,
     obs |-> [k \in {} |-> 0], writes |-> <<>>]

EvolveIdle ==
    /\ density = ZeroStorage
    /\ ev = [t_total |-> 0, dt |-> 0, t |-> 0, applied |-> 0,
             rho0 |-> ZeroStorage]
    /\ laser = LaserIdle

(* ------------------------------------------------------------------ *)
(* The operator module in Q16.16 (src/include/dit_math_fixed.h)        *)
(* ------------------------------------------------------------------ *)

FP_SHIFT == 16

FP_ONE == 2 ^ FP_SHIFT

PI_FP == 205887

PHI_CONJUGATE_FP == 40502

INT32_MAX == 2147483647

INT32_MIN == -INT32_MAX - 1

\* (a * b) >> FP_SHIFT on the 64-bit product, for |a|, |b| < 2^21: the
\* product is taken byte by byte so that no part leaves 32 bits.
MulShift(a, b) ==
    (a \div 256) * (b \div 256)
    + (((a \div 256) * (b % 256) + (a % 256) * (b \div 256)) * 256
       + (a % 256) * (b % 256)) \div FP_ONE

\* A 64-bit integer as hi * 2^16 + lo with 0 <= lo < 2^16.
Wide(hi, lo) == [hi |-> hi + lo \div FP_ONE, lo |-> lo % FP_ONE]

\* The 64-bit product step * n for 0 <= step < 2^18 and 0 <= n < 2^16.
WideProduct(step, n) ==
    Wide((step \div FP_ONE) * n
           + ((step % FP_ONE) * (n \div 256)) \div 256
           + ((step % FP_ONE) * (n % 256)) \div FP_ONE,
         (((step % FP_ONE) * (n \div 256)) % 256) * 256
           + (((step % FP_ONE) * (n % 256)) % FP_ONE))

\* phase += delta, delta a 32-bit fixed_t.
WideAdd(w, delta) ==
    Wide(w.hi + (delta \div FP_ONE), w.lo + (delta % FP_ONE))

\* The 64-bit value is one a 32-bit fixed_t can hold.
FitsFixed(w) == w.hi >= -(FP_ONE \div 2) /\ w.hi < FP_ONE \div 2

\* (fixed_t)phase: the low 32 bits, read as a signed number.
ToFixed(w) ==
    (((w.hi + FP_ONE \div 2) % FP_ONE) - FP_ONE \div 2) * FP_ONE + w.lo

\* while (x > PI_FP) x -= 2 * PI_FP;  while (x < -PI_FP) x += 2 * PI_FP;
\* the number of passes is computed, the passes are not replayed.
NormalizePhase(x) ==
    IF x > PI_FP
    THEN x - ((x - PI_FP - 1) \div (2 * PI_FP)) * (2 * PI_FP) - 2 * PI_FP
    ELSE IF x < -PI_FP
    THEN x + ((-PI_FP - x - 1) \div (2 * PI_FP)) * (2 * PI_FP) + 2 * PI_FP
    ELSE x

\* [x, sign] after the fold to [-PI/2, PI/2].
FoldPhase(x) ==
    IF x > PI_FP \div 2 THEN [x |-> PI_FP - x, sign |-> -FP_ONE]
    ELSE IF x < -(PI_FP \div 2) THEN [x |-> -PI_FP - x, sign |-> -FP_ONE]
    ELSE [x |-> x, sign |-> FP_ONE]

\* cos_val = FP_ONE - term2 + term4 from x2 = (x * x) >> 16.
TaylorCos(x2) == FP_ONE - x2 \div 2 + MulShift(x2, x2) \div 24

CosOfFolded(f) ==
    MulShift(f.sign, TaylorCos(MulShift(f.x, f.x)))

dit_cos_fixed(x) == CosOfFolded(FoldPhase(NormalizePhase(x)))

\* (PI_FP * PHI_CONJUGATE_FP) >> FP_SHIFT
PhaseStep == MulShift(PI_FP, PHI_CONJUGATE_FP)

\* int64_t phase = step * n; phase += delta;
OperatorPhase(n, delta) == WideAdd(WideProduct(PhaseStep, n), delta)

Parity(n) == IF n % 2 = 0 THEN FP_ONE ELSE -FP_ONE

get_golden_operator_fixed(n, delta) ==
    MulShift(Parity(n), dit_cos_fixed(ToFixed(OperatorPhase(n, delta))))

(* ------------------------------------------------------------------ *)
(* The operator in doubles (src/kernel/golden_operator.c)              *)
(* ------------------------------------------------------------------ *)

\* PHI_CONJUGATE 0.6180339887498948 to eight places, as 0.6180 in 1/SCALE
\* units and 0.00003399 in 1/SCALE^2 units.
PHI_CONJUGATE_HI == 6180

PHI_CONJUGATE_LO == 3399

RECURSIVE normalize_angle(_)
\* while (x > PI) x -= TWO_PI;  while (x < -PI) x += TWO_PI;
normalize_angle(x) ==
    IF x > M_PI THEN normalize_angle(x - TWO_PI)
    ELSE IF x < -M_PI THEN normalize_angle(x + TWO_PI)
    ELSE x

\* The unit of the locals of a series: 1/SCALE^2.  The square of an angle
\* held in 1/SCALE units is exact in it.
FINE == SCALE * SCALE

\* The product of two locals, a * b / FINE rounded as RoundDiv rounds, for
\* |a|, |b| < 5 * FINE: taken in halves of four digits so that no part
\* leaves 32 bits; (-a) * b is -(a * b).
MulFineAbs(a, b) ==
    (a \div SCALE) * (b \div SCALE)
    + RoundDiv((a \div SCALE) * (b % SCALE) + (a % SCALE) * (b \div SCALE)
                 + RoundDiv((a % SCALE) * (b % SCALE), SCALE),
               SCALE)

MulFine(a, b) ==
    IF (a < 0) = (b < 0) THEN MulFineAbs(Abs(a), Abs(b))
    ELSE -MulFineAbs(Abs(a), Abs(b))

RECURSIVE CosTerms(_, _, _, _)
RECURSIVE CosAdd(_, _, _, _)
\* for (n = 1; n < 15; n++) { term *= -x2 / ((2*n - 1) * (2*n));
\*                            result += term; }
CosTerms(x2, term, result, n) ==
    IF n >= 15 THEN result
    ELSE CosAdd(x2, MulFine(term, RoundDiv(-x2, (2 * n - 1) * (2 * n))),
                result, n)

CosAdd(x2, term, result, n) == CosTerms(x2, term, result + term, n + 1)

\* The series of golden_cos at an angle already normalised (|x| <= pi), its
\* locals x2, term and result in 1/FINE units, what it returns in 1/SCALE.
CosSeries(x) == RoundDiv(CosTerms(x * x, FINE, FINE, 1), SCALE)

golden_cos(x) == CosSeries(normalize_angle(x))

\* u in [0, 2) half turns brought into (-1, 1], in 1/FINE units.
SignedHalfTurns(u) == IF u > FINE THEN u - 2 * FINE ELSE u

\* phi * n modulo 2, in 1/FINE units, in (-FINE, FINE]: the phase
\* PI * phi * n in half turns, with the whole turns that normalize_angle
\* takes off already gone (a double holds the phase to sixteen places; its
\* image in 1/SCALE units would not).
HalfTurns(n) ==
    SignedHalfTurns((((n * PHI_CONJUGATE_HI) % (2 * SCALE)) * SCALE
                       + n * PHI_CONJUGATE_LO) % (2 * FINE))

\* double phase = PI * phi * n, for phi = PHI_CONJUGATE.
GoldenPhase(n) == Mul(M_PI, RoundDiv(HalfTurns(n), SCALE))

\* n * parity * cos(phase), the form compute_O_n_for_page has.
golden_operator_compute_phi_Scaled(n) ==
    IF n % 2 = 1 THEN -(n * golden_cos(GoldenPhase(n)))
    ELSE n * golden_cos(GoldenPhase(n))

\* parity * golden_cos(phase), parity = (n & 1) ? -1.0 : 1.0
golden_operator_compute_phi(n) ==
    IF n % 2 = 1 THEN -golden_cos(GoldenPhase(n)) ELSE golden_cos(GoldenPhase(n))

golden_operator_compute(n) == golden_operator_compute_phi(n)

\* No call into the operator module yet.
AngleIdle == [site |-> "none", theta |-> 0, dtheta |-> 0, wrapped |-> 0]

\* The drivers before their init functions have run: the statics as the
\* image holds them, no call of metriplectic_heartbeat_wait made.
HeartbeatIdle ==
    [global_ticks |-> 0,
     state |-> [theta |-> 0, O_n |-> 0, L_symp |-> 0, L_metr |-> 0,
                entropy |-> 0, viscosity |-> 0, n |-> 0],
     obs |-> [phase_accumulator |-> 0, ipr |-> 0, reynolds_info |-> 0,
              centroid_z |-> 0],
     logged |-> 0, handled |-> 0,
     wait |-> [at |-> "none", ticks |-> 0, start_ticks |-> 0, called_at |-> 0,
               since |-> 0]]

VgaIdle == [vga_row |-> 0, vga_col |-> 0, vga_color |-> 15,
            cells |-> <<>>, last_index |-> -1, ops |-> 0]

DriverIdle == hb = HeartbeatIdle /\ vga = VgaIdle

OperatorIdle ==
    /\ gop = [fn |-> "none", n |-> 0, delta |-> 0, phase |-> Wide(0, 0),
              x |-> 0, ret |-> 0, value |-> 0]
    /\ angle = AngleIdle
    /\ DriverIdle

(* ------------------------------------------------------------------ *)
(* The pool as a state machine                                         *)
(* ------------------------------------------------------------------ *)

\* Operations per behaviour of Spec.
MaxSteps == 4

\* Sizes passed to memory_allocate: below and above PAGE_SIZE.
AllocSizes == {100, 5000}

\* Initial pools of Spec: memory_init followed by k calls memory_allocate(100).
\* 90 brings in slot 89, whose first step wraps below zero; 255 leaves one
\* slot free.
BootAllocs == {0, 90, 255}

PageAddr(i) == MEMORY_BASE + i * PAGE_SIZE

\* Addresses passed to memory_free: slots 0, 89 and 255, and 0, the
\* address of no record.
FreeAddrs == {PageAddr(0), PageAddr(89), PageAddr(255), 0}

\* What update_inverted_geometry may read past pages[].
Indeterminate == {0, SCALE}

PoolBooted(k) ==
    /\ memmgr = AfterAllocs(k, 100)
    /\ call = [op |-> "init", arg |-> 0, ret |-> 0]
    /\ steps = 0
    /\ returned = [j \in 1 .. k |-> PageAddr(j - 1)]
    /\ freed_empty = FALSE
    /\ ledger = [in_use |-> {PageAddr(j) : j \in 0 .. (k - 1)}, stray |-> FALSE]

Booted(k) ==
    PoolBooted(k) /\ ProbeIdle /\ OperatorIdle /\ EngineIdle /\ EvolveIdle

Init == pc = "run" /\ \E k \in BootAllocs : Booted(k)

Allocate(size) ==
    /\ memmgr' = memory_allocate(memmgr, size).mm
    /\ call' = [op |-> "allocate", arg |-> size,
                ret |-> memory_allocate(memmgr, size).ret]
    /\ returned' = Append(returned, memory_allocate(memmgr, size).ret)
    /\ ledger' = [ledger EXCEPT
                     !.in_use = @ \cup ({memory_allocate(memmgr, size).ret} \ {0})]
    /\ UNCHANGED <<freed_empty, probe, operatorVars, engineVars, evolveVars>>

Free(address) ==
    /\ memmgr' = memory_free(memmgr, address)
    /\ call' = [op |-> "free", arg |-> address, ret |-> 0]
    /\ freed_empty' = (freed_empty \/ \E i \in PageIdx :
                          /\ memmgr.pages[i].address = address
                          /\ memmgr.pages[i].state = MEM_EMPTY)
    /\ ledger' = [in_use |-> ledger.in_use \ {address},
                  stray  |-> (ledger.stray
                                \/ \A j \in DOMAIN returned : returned[j] # address)]
    /\ UNCHANGED <<returned, probe, operatorVars, engineVars, evolveVars>>

\* memory_timestep(global_time); global_time is not read by the function,
\* and call.arg keeps its parity.
Timestep ==
    /\ \E g \in Indeterminate : memmgr' = memory_timestep(memmgr, g)
    /\ call' = [op |-> "timestep", arg |-> (call.arg + 1) % 2, ret |-> 0]
    /\ UNCHANGED <<returned, freed_empty, ledger, probe, operatorVars, engineVars, evolveVars>>

Next ==
    /\ steps < MaxSteps
    /\ pc = "run"
    /\ \/ \E size \in AllocSizes : Allocate(size)
       \/ \E address \in FreeAddrs : Free(address)
       \/ Timestep
    /\ steps' = steps + 1
    /\ UNCHANGED pc

Spec == Init /\ [][Next]_vars

(* ------------------------------------------------------------------ *)
(* Filling a fresh pool: memory_init, then memory_allocate only        *)
(* ------------------------------------------------------------------ *)

\* Calls made after the pool is exhausted.
MaxOverCalls == 2

InitFill == pc = "fill" /\ Booted(0)

NextFill ==
    /\ pc = "fill"
    /\ steps < MAX_MEMORY_PAGES + MaxOverCalls
    /\ Allocate(100)
    /\ steps' = steps + 1
    /\ UNCHANGED pc

SpecFill == InitFill /\ [][NextFill]_vars

\* The closed form used for the initial pools of Spec is what k calls of
\* memory_allocate(100) on a fresh pool produce.
FillMatchesAfterAllocs ==
    (pc = "fill" /\ steps <= MAX_MEMORY_PAGES) =>
        /\ memmgr = AfterAllocs(steps, 100)
        /\ returned = [j \in 1 .. steps |-> PageAddr(j - 1)]

(* ------------------------------------------------------------------ *)
(* The exhaustion scenario: fill the pool, one call too many, free the *)
(* first address, then tick for ever                                   *)
(* ------------------------------------------------------------------ *)

InitScenario == pc = "sc_fill" /\ Booted(0)

ScFill ==
    /\ pc = "sc_fill"
    /\ Allocate(100)
    /\ pc' = IF memmgr.allocated_pages + 1 = MAX_MEMORY_PAGES
             THEN "sc_overflow" ELSE "sc_fill"
    /\ steps' = steps + 1

ScOverflow ==
    /\ pc = "sc_overflow"
    /\ Allocate(100)
    /\ pc' = "sc_free"
    /\ steps' = steps + 1

ScFree ==
    /\ pc = "sc_free"
    /\ Free(returned[1])
    /\ pc' = "sc_tick"
    /\ steps' = steps + 1

ScTick ==
    /\ pc = "sc_tick"
    /\ Timestep
    /\ UNCHANGED <<pc, steps>>

NextScenario == ScFill \/ ScOverflow \/ ScFree \/ ScTick

SpecScenario == InitScenario /\ [][NextScenario]_vars

(* ------------------------------------------------------------------ *)
(* A pool refilled after a tick: memory_init, k calls of               *)
(* memory_allocate, one memory_timestep, then memory_allocate until    *)
(* it fails                                                            *)
(* ------------------------------------------------------------------ *)

\* Records allocated before the tick: the pool all but full.
RefillBoots == {253, 254, 255}

InitRefill == pc = "refill_tick" /\ \E k \in RefillBoots : Booted(k)

RefillTick ==
    /\ pc = "refill_tick"
    /\ Timestep
    /\ pc' = "refill_alloc"
    /\ steps' = steps + 1

RefillAllocate ==
    /\ pc = "refill_alloc"
    /\ Allocate(100)
    /\ pc' = IF memory_allocate(memmgr, 100).ret = 0
             THEN "refill_done" ELSE "refill_alloc"
    /\ steps' = steps + 1

NextRefill == RefillTick \/ RefillAllocate

SpecRefill == InitRefill /\ [][NextRefill]_vars

\* Every record is Empty: memory_timestep steps and resets non-Empty records
\* only, so from here on no tick changes a record or the occupied count.
Quiescent == NonEmpty(memmgr.pages) = {}

(* ------------------------------------------------------------------ *)
(* project_memory_state on its own                                     *)
(* ------------------------------------------------------------------ *)

\* Operator values: both signs, on and next to 0.5 and 1.5.
ProbeO ==
    {-2 * SCALE, -15001, -15000, -8000, -5001, -5000, -3000, 0, 1000, 3000,
     5000, 5001, 8000, 15000, 15001, 2 * SCALE}

\* Angles: below 0, on and next to pi/4, 3*pi/4 and 5*pi/4, up to 2*pi and
\* beyond.
ProbeTheta ==
    {-SCALE, 0, 1000, 7854, 7855, SCALE, 23562, 23563, 26000, 39270, 39271,
     45000, TWO_PI, 7 * SCALE}

InitProject ==
    /\ pc = "project"
    /\ PoolBooted(0)
    /\ OperatorIdle
    /\ EngineIdle
    /\ EvolveIdle
    /\ \E o \in ProbeO, t \in ProbeTheta :
          probe = [O_n |-> o, theta |-> t, state |-> MEM_EMPTY,
                   called |-> FALSE]

Project ==
    /\ pc = "project"
    /\ ~probe.called
    /\ probe' = [probe EXCEPT
                    !.state = project_memory_state(probe.O_n, probe.theta),
                    !.called = TRUE]
    /\ UNCHANGED <<poolVars, steps, pc, operatorVars, engineVars, evolveVars>>

NextProject == Project

SpecProject == InitProject /\ [][NextProject]_vars

(* ------------------------------------------------------------------ *)
(* Building a Lindblad system: lindblad_init, then any number of       *)
(* lindblad_set_hamiltonian and lindblad_add_jump_operator calls       *)
(* ------------------------------------------------------------------ *)

\* Hilbert-space dimensions passed to lindblad_init.
SystemDims == {2, 3}

\* Rates passed to lindblad_add_jump_operator: 0.25 and 1.
JumpRates == {SCALE \div 4, SCALE}

Void(op, req, num_ops, ext) ==
    [op |-> op, req |-> req, num_ops |-> num_ops, ret |-> "void",
     max_row |-> ext.row, max_col |-> ext.col]

InitLindblad ==
    /\ pc = "lindblad"
    /\ PoolBooted(0)
    /\ ProbeIdle
    /\ OperatorIdle
    /\ mat = ZeroStorage
    /\ EvolveIdle
    /\ \E dim \in SystemDims :
          /\ lsys = lindblad_init(ZeroSystem, dim)
          /\ lb_call = Void("init", <<dim, dim>>, 0, Extent(dim, dim))

\* The driver is in its first round of calls or, after a second
\* lindblad_init, in its second.
InLindblad == pc \in {"lindblad", "lindblad_again"}

\* The number of registered operators at which the driver may call
\* lindblad_init a second time.
ReInitAfter == {1}

\* lindblad_init on a system already in use: the slots keep what they hold.
ReInit ==
    /\ pc = "lindblad"
    /\ lsys.num_ops \in ReInitAfter
    /\ pc' = "lindblad_again"
    /\ \E dim \in SystemDims :
          /\ lsys' = lindblad_init(lsys, dim)
          /\ lb_call' = Void("init", <<dim, dim>>, lsys.num_ops,
                             Extent(dim, dim))
    /\ UNCHANGED <<poolVars, steps, probe, operatorVars, mat, evolveVars>>

\* H = 1, or H = the lowering operator times its adjoint.
SetHamiltonian ==
    /\ InLindblad
    /\ \E H \in {cmatrix_identity(ZeroStorage, lsys.dim),
                 cmatrix_mul(ZeroStorage,
                     create_annihilation_cavity(ZeroStorage, lsys.dim),
                     cmatrix_dagger(ZeroStorage,
                         create_annihilation_cavity(ZeroStorage, lsys.dim)))} :
          lsys' = lindblad_set_hamiltonian(lsys, H)
    /\ lb_call' = Void("set_hamiltonian", <<lsys.dim, lsys.dim>>,
                       lsys.num_ops, Extent(lsys.dim, lsys.dim))
    /\ UNCHANGED <<poolVars, steps, pc, probe, operatorVars, mat, evolveVars>>

\* L = the lowering operator of the system's dimension.
AddJumpOperator(gamma) ==
    /\ InLindblad
    /\ lsys' = lindblad_add_jump_operator(
                   lsys, create_annihilation_cavity(ZeroStorage, lsys.dim),
                   gamma)
    /\ lb_call' = [gamma |-> gamma]
                   @@ Void("add_jump", <<lsys.dim, lsys.dim>>, lsys.num_ops,
                           IF lsys.num_ops >= LINDBLAD_MAX_OPS
                           THEN Extent(0, 0) ELSE Extent(lsys.dim, lsys.dim))
    /\ UNCHANGED <<poolVars, steps, pc, probe, operatorVars, mat, evolveVars>>

NextLindblad ==
    \/ ReInit
    \/ SetHamiltonian
    \/ \E gamma \in JumpRates : AddJumpOperator(gamma)

SpecLindblad == InitLindblad /\ [][NextLindblad]_vars

(* ------------------------------------------------------------------ *)
(* The matrix primitives and builders that take a dimension            *)
(* ------------------------------------------------------------------ *)

\* Calls per behaviour of SpecMatrix.
MaxMatCalls == 3

\* Row and column counts requested: small, the largest the array holds, and
\* one more.
MatDims == {1, 2, LINDBLAD_MAX_DIM, LINDBLAD_MAX_DIM + 1}

\* <<dim_atom, dim_cavity>>: a two-level pair, the defaults of
\* laser_params_default (4 x 12 = 48), and 5 x 13 = 65.
LaserDims == {<<2, 2>>, <<4, 12>>, <<5, 13>>}

InitMatrix ==
    /\ pc = "matrix"
    /\ PoolBooted(0)
    /\ ProbeIdle
    /\ OperatorIdle
    /\ EngineIdle
    /\ EvolveIdle

\* A store at a row or column index past the array is undefined behaviour.
\* data[LINDBLAD_MAX_DIM][0] is where rows and cols lie, so the header may
\* come out as requested or overwritten; the driver is not followed further.
Overrun(ext) ==
    ext.row >= LINDBLAD_MAX_DIM \/ ext.col >= LINDBLAD_MAX_DIM

Outcomes(m, ext) ==
    IF Overrun(ext) THEN {m, [m EXCEPT !.rows = 0, !.cols = 0]} ELSE {m}

MatrixCall(op, req, m, ext) ==
    /\ mat' \in Outcomes(m, ext)
    /\ lb_call' = Void(op, req, lsys.num_ops, ext)
    /\ steps' = steps + 1
    /\ pc' = IF Overrun(ext) THEN "undefined" ELSE "matrix"
    /\ UNCHANGED <<poolVars, probe, operatorVars, lsys, evolveVars>>

CmZero(rows, cols) ==
    /\ pc = "matrix"
    /\ steps < MaxMatCalls
    /\ MatrixCall("cmatrix_zero", <<rows, cols>>,
                  cmatrix_zero(mat, rows, cols), Extent(rows, cols))

CmIdentity(dim) ==
    /\ pc = "matrix"
    /\ steps < MaxMatCalls
    /\ MatrixCall("cmatrix_identity", <<dim, dim>>,
                  cmatrix_identity(mat, dim), Extent(dim, dim))

\* In place, by 2 or by i.
CmScale(s) ==
    /\ pc = "matrix"
    /\ steps < MaxMatCalls
    /\ MatrixCall("cmatrix_scale", <<mat.rows, mat.cols>>,
                  cmatrix_scale(mat, s), Extent(mat.rows, mat.cols))

\* Writes I_atom, a_cavity and their Kronecker product.
LaserCreateAnnihilation(dim_atom, dim_cavity) ==
    /\ pc = "matrix"
    /\ steps < MaxMatCalls
    /\ MatrixCall("laser_create_annihilation",
                  <<dim_atom * dim_cavity, dim_atom * dim_cavity>>,
                  laser_create_annihilation(mat, dim_atom, dim_cavity),
                  Extent(dim_atom * dim_cavity, dim_atom * dim_cavity))

NextMatrix ==
    \/ \E rows \in MatDims, cols \in MatDims : CmZero(rows, cols)
    \/ \E dim \in MatDims : CmIdentity(dim)
    \/ \E s \in {complex_make(2 * SCALE, 0), complex_make(0, SCALE)} :
          CmScale(s)
    \/ \E d \in LaserDims : LaserCreateAnnihilation(d[1], d[2])

SpecMatrix == InitMatrix /\ [][NextMatrix]_vars

(* ------------------------------------------------------------------ *)
(* lindblad_evolve: the loop  while (t < t_total) { step; t += dt; }   *)
(* ------------------------------------------------------------------ *)

\* The count of applied steps is kept up to this value.
MaxCounted == 128

\* A 2 x 2 matrix given by its four elements.
Matrix2(a, b, c, d) ==
    [rows |-> 2, cols |-> 2,
     data |-> [x \in Stored(2, 2) |->
                  IF x = <<0, 0>> THEN a ELSE IF x = <<0, 1>> THEN b
                  ELSE IF x = <<1, 0>> THEN c ELSE d]]

\* sigma_x, and the Hermitian matrix ((0.3, 0.7+0.1i), (0.7-0.1i, -0.4)).
Hamiltonians ==
    {Matrix2(complex_make(0, 0), complex_make(SCALE, 0),
             complex_make(SCALE, 0), complex_make(0, 0)),
     Matrix2(complex_make(3000, 0), complex_make(7000, 1000),
             complex_make(7000, -1000), complex_make(-4000, 0))}

\* |0><0|, and the mixed state ((0.6, 0.2+0.3i), (0.2-0.3i, 0.4)).
Densities ==
    {Matrix2(complex_make(SCALE, 0), complex_make(0, 0),
             complex_make(0, 0), complex_make(0, 0)),
     Matrix2(complex_make(6000, 0), complex_make(2000, 3000),
             complex_make(2000, -3000), complex_make(4000, 0))}

\* <<t_total, dt>>: no time to cover, whole and fractional numbers of steps,
\* a hundred steps, and a step of zero length.
EvolveArgs ==
    {<<-SCALE, 1000>>, <<0, 1000>>, <<0, 0>>, <<SCALE, 2500>>,
     <<3000, 2000>>, <<SCALE, 100>>, <<5000, 0>>}

\* A system of dimension 2 with Hamiltonian H and, when gamma > 0, the
\* lowering operator as its one jump operator.
System2(H, gamma) ==
    IF gamma > 0
    THEN lindblad_add_jump_operator(
             lindblad_set_hamiltonian(lindblad_init(ZeroSystem, 2), H),
             create_annihilation_cavity(ZeroStorage, 2), gamma)
    ELSE lindblad_set_hamiltonian(lindblad_init(ZeroSystem, 2), H)

InitEvolve ==
    /\ pc = "ev_loop"
    /\ PoolBooted(0)
    /\ ProbeIdle
    /\ OperatorIdle
    /\ mat = ZeroStorage
    /\ \E H \in Hamiltonians, gamma \in {0, SCALE \div 4} :
          lsys = System2(H, gamma)
    /\ density \in Densities
    /\ laser = LaserIdle
    /\ \E a \in EvolveArgs :
          /\ ev = [t_total |-> a[1], dt |-> a[2], t |-> 0, applied |-> 0,
                   rho0 |-> density]
          /\ lb_call = Void("lindblad_evolve", <<2, 2>>, lsys.num_ops,
                            Extent(0, 0))

\* The loop test with <= for <.
LoopTest_Inclusive(t, t_total) == t <= t_total

\* while (t < t_total)
LoopTest(t, t_total) == t < t_total

\* One pass of the loop body.
EvolveIterate ==
    /\ pc = "ev_loop"
    /\ LoopTest(ev.t, ev.t_total)
    /\ density' = lindblad_step_rk4(lsys, density, ev.dt)
    /\ ev' = [ev EXCEPT !.t = ev.t + ev.dt,
                        !.applied = Min(ev.applied + 1, MaxCounted)]
    /\ UNCHANGED <<poolVars, steps, pc, probe, operatorVars, lsys, mat, lb_call, laser>>

\* The loop test fails and the function returns.
EvolveReturn ==
    /\ pc = "ev_loop"
    /\ ~LoopTest(ev.t, ev.t_total)
    /\ pc' = "ev_done"
    /\ UNCHANGED <<poolVars, steps, probe, operatorVars, engineVars, density, ev, laser>>

NextEvolve == EvolveIterate \/ EvolveReturn

SpecEvolve == InitEvolve /\ [][NextEvolve]_vars

(* ------------------------------------------------------------------ *)
(* laser_evolve: integrate from t_start to t_end, sampling on the way  *)
(* ------------------------------------------------------------------ *)

\* <<t_start, t_end, dt, num_samples>>: dt equal to the sample spacing, a
\* divisor of it, no divisor of it, larger than it; a start other than 0; two
\* longer runs.
LaserRuns ==
    {<<0, SCALE, 2500, 5>>, <<0, SCALE, 1000, 3>>, <<0, SCALE, 3000, 3>>,
     <<0, SCALE, 5000, 5>>, <<SCALE, 2 * SCALE, 1000, 2>>,
     <<0, 2 * SCALE, 500, 5>>, <<0, 3 * SCALE, 500, 4>>}

\* The locals of laser_evolve on entry, with obs[] not yet written.
LaserEntry(p, num_samples) ==
    [p |-> p, num_samples |-> num_samples,
     t |-> p.t_start,
     dt_sample |-> RoundDiv(p.t_end - p.t_start, num_samples - 1),
     sample_idx |-> 0,
     next_sample |-> p.t_start,
     obs |-> [k \in {} |-> 0],
     writes |-> <<>>]

InitLaserFrom(p, num_samples) ==
    /\ laser = LaserEntry(p, num_samples)
    /\ lsys = laser_build_system(p, ZeroSystem).sys
    /\ density = laser_build_system(p, ZeroSystem).rho0
    /\ lb_call = Void("laser_evolve",
                      <<p.dim_atom * p.dim_cavity, p.dim_atom * p.dim_cavity>>,
                      5, Extent(0, 0))

InitLaser ==
    /\ pc = "lz_loop"
    /\ PoolBooted(0)
    /\ ProbeIdle
    /\ OperatorIdle
    /\ mat = ZeroStorage
    /\ ev = [t_total |-> 0, dt |-> 0, t |-> 0, applied |-> 0,
             rho0 |-> ZeroStorage]
    /\ \E r \in LaserRuns :
          InitLaserFrom(LaserParams(4, 2, r[1], r[2], r[3]), r[4])

\* obs[sample_idx] as the sampling branch fills it.
Sample(t, state) ==
    [time |-> t, n_photons |-> state.n_photons,
     inversion |-> state.inversion,
     g2 |-> SCALE + (SCALE - state.purity)]

\* if (t >= next_sample) { obs[sample_idx] = ...; sample_idx++;
\*                         next_sample += dt_sample; }
TakeSample(lz, rho) ==
    IF lz.t >= lz.next_sample
    THEN [lz EXCEPT
            !.obs = [k \in DOMAIN lz.obs \cup {lz.sample_idx} |->
                        IF k = lz.sample_idx
                        THEN Sample(lz.t, laser_compute_observables(lz.p, rho))
                        ELSE lz.obs[k]],
            !.writes = Append(lz.writes, lz.sample_idx),
            !.sample_idx = lz.sample_idx + 1,
            !.next_sample = lz.next_sample + lz.dt_sample]
    ELSE lz

\* while (t < p->t_end && sample_idx < num_samples)
LaserLoopTest(lz) == lz.t < lz.p.t_end /\ lz.sample_idx < lz.num_samples

\* One pass of the loop body: the sample when one is due, then one RK4 step.
LaserIterate ==
    /\ pc = "lz_loop"
    /\ LaserLoopTest(laser)
    /\ laser' = [TakeSample(laser, density) EXCEPT !.t = laser.t + laser.p.dt]
    /\ density' = lindblad_step_rk4(lsys, density, laser.p.dt)
    /\ UNCHANGED <<poolVars, steps, pc, probe, operatorVars, engineVars, ev>>

LaserReturn ==
    /\ pc = "lz_loop"
    /\ ~LaserLoopTest(laser)
    /\ pc' = "lz_done"
    /\ UNCHANGED <<poolVars, steps, probe, operatorVars, engineVars, evolveVars>>

NextLaser == LaserIterate \/ LaserReturn

SpecLaser == InitLaser /\ [][NextLaser]_vars

(* ------------------------------------------------------------------ *)
(* Calls into the operator module                                      *)
(* ------------------------------------------------------------------ *)

\* The loop bound of the sweeps in src/tests/test_golden_operator.c.
ScanLimit == 10000

\* Step indexes beyond the sweep: the last one whose phase fits 32 bits, the
\* first one whose phase does not, and larger ones.
FarIndexes == {16877, 16878, 30000, 65535}

\* Phase offsets: none, DIT_DELTA_DEFAULT = 0.18 in Q16.16, -1.0, and the
\* largest fixed_t.
Deltas == {0, 11796, -FP_ONE, INT32_MAX}

\* Arguments of dit_cos_fixed: the ends of the 32-bit range, the edges of the
\* reduction and of the fold, and the whole range in equal strides.
CosInputs ==
    {0, 1, -1, PI_FP, PI_FP + 1, -PI_FP, -PI_FP - 1, PI_FP \div 2,
     PI_FP \div 2 + 1, -(PI_FP \div 2), -(PI_FP \div 2) - 1, 2 * PI_FP,
     INT32_MAX, INT32_MIN}
    \cup {k * 16777259 : k \in -127 .. 127}

\* get_golden_operator_fixed(n, delta), with the phase it formed and the
\* argument it handed to dit_cos_fixed, and golden_operator_compute(n).
OperatorCall(n, delta) ==
    [fn |-> "get_golden_operator_fixed", n |-> n, delta |-> delta,
     phase |-> OperatorPhase(n, delta),
     x |-> ToFixed(OperatorPhase(n, delta)),
     ret |-> get_golden_operator_fixed(n, delta),
     value |-> golden_operator_compute(n)]

CosCall(x) ==
    [fn |-> "dit_cos_fixed", n |-> 0, delta |-> 0, phase |-> Wide(0, 0),
     x |-> x, ret |-> dit_cos_fixed(x), value |-> 0]

InitOperator ==
    /\ pc = "op"
    /\ PoolBooted(0)
    /\ ProbeIdle
    /\ EngineIdle
    /\ EvolveIdle
    /\ angle = AngleIdle
    /\ DriverIdle
    /\ \E delta \in Deltas : gop = OperatorCall(0, delta)

\* The sweep: the next step index, same offset.
ScanNext ==
    /\ pc = "op"
    /\ gop.fn = "get_golden_operator_fixed"
    /\ gop.n + 1 < ScanLimit
    /\ gop' = OperatorCall(gop.n + 1, gop.delta)
    /\ UNCHANGED <<poolVars, steps, pc, probe, angle, hb, vga, engineVars, evolveVars>>

\* A call at a step index beyond the sweep.
FarCall ==
    /\ pc = "op"
    /\ gop.fn = "get_golden_operator_fixed"
    /\ \E n \in FarIndexes : gop' = OperatorCall(n, gop.delta)
    /\ UNCHANGED <<poolVars, steps, pc, probe, angle, hb, vga, engineVars, evolveVars>>

\* A direct call of dit_cos_fixed.
CallCos ==
    /\ pc = "op"
    /\ gop.fn = "get_golden_operator_fixed"
    /\ gop.n = 0
    /\ \E x \in CosInputs : gop' = CosCall(x)
    /\ UNCHANGED <<poolVars, steps, pc, probe, angle, hb, vga, engineVars, evolveVars>>

NextOperator == ScanNext \/ FarCall \/ CallCos

SpecOperator == InitOperator /\ [][NextOperator]_vars

(* ------------------------------------------------------------------ *)
(* The update of theta: theta += increment, then the wrap, as written  *)
(* in golden_operator_step and in metripletic_page_evolution           *)
(* ------------------------------------------------------------------ *)

RECURSIVE LiftTheta(_)
\* while (state->theta < 0.0) state->theta += TWO_PI;
LiftTheta(t) == IF t < 0 THEN LiftTheta(t + TWO_PI) ELSE t

RECURSIVE LowerTheta(_)
\* while (state->theta > TWO_PI) state->theta -= TWO_PI;
LowerTheta(t) == IF t > TWO_PI THEN LowerTheta(t - TWO_PI) ELSE t

\* The wrap of golden_operator_step with each test taken once.
WrapLoops_Once(theta) == WrapTheta(theta)

\* The wrap of golden_operator_step: the first loop, then the second.
WrapLoops(theta) == LowerTheta(LiftTheta(theta))

\* theta before the update: the poles, the value set by memory_allocate,
\* the equator, and the last values below 2*pi.
AnglesBefore == {0, SCALE \div 10, M_PI, TWO_PI - SCALE \div 10, TWO_PI - 1}

\* Increments of both signs: none, one unit, the size of a step of the
\* global state (0.0157), a quarter turn, half a turn, a turn less 0.1, a
\* whole turn, and three turns and one unit.
Increments ==
    {0, 1, -1, 157, -157, M_PI \div 2, -(M_PI \div 2), M_PI, -M_PI,
     TWO_PI - SCALE \div 10, SCALE \div 10 - TWO_PI, TWO_PI, -TWO_PI,
     3 * TWO_PI + 1, -(3 * TWO_PI) - 1}

InitAngle ==
    /\ pc = "angle"
    /\ PoolBooted(0)
    /\ ProbeIdle
    /\ EngineIdle
    /\ EvolveIdle
    /\ gop = [fn |-> "none", n |-> 0, delta |-> 0, phase |-> Wide(0, 0),
              x |-> 0, ret |-> 0, value |-> 0]
    /\ DriverIdle
    /\ \E theta \in AnglesBefore, dtheta \in Increments :
          angle = [AngleIdle EXCEPT !.theta = theta, !.dtheta = dtheta]

\* golden_operator_step: state->theta += increment; the two loops.
StepUpdate ==
    /\ pc = "angle"
    /\ angle.site = "none"
    /\ angle' = [angle EXCEPT
                    !.site = "golden_operator_step",
                    !.wrapped = WrapLoops(angle.theta + angle.dtheta)]
    /\ UNCHANGED <<poolVars, steps, pc, probe, gop, hb, vga, engineVars, evolveVars>>

\* metripletic_page_evolution: page->theta += increment; the two tests.
PageUpdate ==
    /\ pc = "angle"
    /\ angle.site = "none"
    /\ angle' = [angle EXCEPT
                    !.site = "metripletic_page_evolution",
                    !.wrapped = WrapTheta(angle.theta + angle.dtheta)]
    /\ UNCHANGED <<poolVars, steps, pc, probe, gop, hb, vga, engineVars, evolveVars>>

NextAngle == StepUpdate \/ PageUpdate

SpecAngle == InitAngle /\ [][NextAngle]_vars

(* ------------------------------------------------------------------ *)
(* The global GoldenState and the heartbeat                            *)
(* (src/kernel/golden_operator.c, src/drivers/metriplectic_heartbeat.c)*)
(*                                                                     *)
(* uint32_t values are held in their two's-complement reading: a value *)
(* v >= 2^31 appears as v - 2^32.                                      *)
(* ------------------------------------------------------------------ *)

\* The uint32_t 2^32 - j, for 0 < j <= 2^31.
BeforeWrap(j) == -j

\* x + 1 in uint32_t.
U32Inc(x) == IF x = 2147483647 THEN -2147483647 - 1 ELSE x + 1

\* a - b in uint32_t.
U32Sub(a, b) ==
    IF a >= 0 /\ b < 0 /\ a > 2147483647 + b
    THEN ((a - 2147483647) - 1) + ((-2147483647 - 1) - b)
    ELSE IF a < 0 /\ b > 0 /\ a < (-2147483647 - 1) + b
    THEN ((a + 2147483647) + 1) + ((2147483647 - b) + 1)
    ELSE a - b

\* a < b in uint32_t.
U32LT(a, b) == IF (a < 0) = (b < 0) THEN a < b ELSE b < 0

\* x % 1000 in uint32_t (2^32 = 296 modulo 1000).
U32Mod1000(x) == IF x >= 0 THEN x % 1000 ELSE ((x % 1000) + 296) % 1000

HALF_PI == M_PI \div 2

golden_fabs(x) == IF x < 0 THEN -x ELSE x

RECURSIVE SinTerms(_, _, _, _)
RECURSIVE SinAdd(_, _, _, _)
\* for (n = 1; n < 15; n++) { term *= -x2 / ((2*n) * (2*n + 1));
\*                            result += term; }
SinTerms(x2, term, result, n) ==
    IF n >= 15 THEN result
    ELSE SinAdd(x2, MulFine(term, RoundDiv(-x2, (2 * n) * (2 * n + 1))),
                result, n)

SinAdd(x2, term, result, n) == SinTerms(x2, term, result + term, n + 1)

\* The series of golden_sin at an angle already normalised, its locals in
\* 1/FINE units, what it returns in 1/SCALE.
SinSeries(x) == RoundDiv(SinTerms(x * x, x * SCALE, x * SCALE, 1), SCALE)

golden_sin(x) == SinSeries(normalize_angle(x))

RECURSIVE ExpTerms(_, _, _, _)
\* for (n = 1; n < 30; n++) { term *= x / n; result += term;
\*                            if (golden_fabs(term) < 1e-10) break; }
\* A term below the unit 1/FINE is 0 here and ends the loop.
ExpTerms(x, term, result, n) ==
    IF n >= 30 \/ term = 0 THEN result
    ELSE ExpTerms(x, MulFine(term, RoundDiv(x * SCALE, n)),
                  result + MulFine(term, RoundDiv(x * SCALE, n)), n + 1)

\* golden_exp(x), the series for |x| <= 1 (the step calls it at theta / 300).
golden_exp(x) ==
    IF x > 20 * SCALE THEN 485165195
    ELSE IF x < -20 * SCALE THEN 0
    ELSE RoundDiv(ExpTerms(x, FINE, FINE, 1), SCALE)

golden_operator_init ==
    [theta |-> 0, O_n |-> SCALE, L_symp |-> 0, L_metr |-> 0, entropy |-> 0,
     viscosity |-> SCALE \div 10, n |-> 0]

\* theta_dot = O_n * PI / 100;  L_symp = 0.5 * theta_dot^2 - cos(theta);
\* L_metr = 0.5 * viscosity * (theta - PI)^2.
golden_operator_compute_lagrangian(st) ==
    [L_symp |-> RoundDiv(Mul(RoundDiv(Mul(st.O_n, M_PI), 100),
                             RoundDiv(Mul(st.O_n, M_PI), 100)), 2)
                - golden_cos(st.theta),
     L_metr |-> Mul(Mul(RoundDiv(st.viscosity, 2), st.theta - M_PI),
                    st.theta - M_PI)]

\* The increment of theta: O_n * sin(2*theta) * HALF_PI / 100
\*                         + viscosity * (PI - theta) / 50.
StepIncrement(st) ==
    RoundDiv(Mul(Mul(st.O_n, golden_sin(2 * st.theta)), HALF_PI), 100)
    + RoundDiv(Mul(st.viscosity, M_PI - st.theta), 50)

\* The tail of golden_operator_step, st holding the new n and O_n and theta
\* being the angle as updated and wrapped.
StepTail(st, theta) ==
    [st EXCEPT
       !.L_symp = golden_operator_compute_lagrangian(st).L_symp,
       !.L_metr = golden_operator_compute_lagrangian(st).L_metr,
       !.theta = theta,
       !.viscosity = RoundDiv(golden_exp(RoundDiv(theta, 300)), 10),
       !.entropy = RoundDiv(golden_fabs(golden_sin(theta)) + SCALE \div 10, 4)]

\* golden_operator_step with n and O_n already written.
StepFrom(st) == StepTail(st, WrapLoops(st.theta + StepIncrement(st)))

\* Mutant of golden_operator_step: the operator computed before n++.
golden_operator_step_Stale(st) ==
    StepFrom([st EXCEPT !.n = U32Inc(st.n),
                        !.O_n = golden_operator_compute(st.n)])

\* golden_operator_step: state->n++; state->O_n = golden_operator_compute(
\* state->n); then the Lagrangians, theta, viscosity and entropy.
golden_operator_step(st) ==
    StepFrom([st EXCEPT !.n = U32Inc(st.n),
                        !.O_n = golden_operator_compute(U32Inc(st.n))])

\* golden_operator_compute_observables, for n below 2^31.
golden_operator_compute_observables(st) ==
    [phase_accumulator |->
         Mul(st.n * PHI_CONJUGATE_HI + RoundDiv(st.n * PHI_CONJUGATE_LO, SCALE),
             M_PI),
     ipr |-> SCALE - RoundDiv(Mul(golden_cos(RoundDiv(st.theta, 2)),
                                  golden_cos(RoundDiv(st.theta, 2))), 2),
     reynolds_info |-> RoundDiv(golden_fabs(st.O_n) * SCALE, st.viscosity) * 1000,
     centroid_z |-> golden_cos(st.theta)]

\* Handler invocations per behaviour.
MaxBeats == 8

\* global_ticks when golden_operator_init(&current_golden_state) has run:
\* at boot, shortly before a second is logged, and two ticks before the
\* counter wraps.
BootTicks == {0, 995, BeforeWrap(2)}

\* Arguments of metriplectic_heartbeat_wait: 0, 1, 3 and 2^32 - 1.
WaitArgs == {0, 1, 3, BeforeWrap(1)}

InitHeartbeat ==
    /\ pc = "heartbeat"
    /\ PoolBooted(0)
    /\ ProbeIdle
    /\ EngineIdle
    /\ EvolveIdle
    /\ gop = [fn |-> "none", n |-> 0, delta |-> 0, phase |-> Wide(0, 0),
              x |-> 0, ret |-> 0, value |-> 0]
    /\ angle = AngleIdle
    /\ vga = VgaIdle
    /\ \E t \in BootTicks :
          hb = [HeartbeatIdle EXCEPT !.global_ticks = t,
                                     !.state = golden_operator_init]

\* metriplectic_heartbeat_handler, given the state as stepped: the tick
\* counted, the observables recomputed, a line logged every 1000 ticks.
HandlerWith(h, st) ==
    [h EXCEPT !.global_ticks = U32Inc(h.global_ticks),
              !.state = st,
              !.obs = golden_operator_compute_observables(st),
              !.logged = IF U32Mod1000(U32Inc(h.global_ticks)) = 0
                         THEN h.logged + 1 ELSE h.logged,
              !.handled = h.handled + 1]

metriplectic_heartbeat_handler(h) == HandlerWith(h, golden_operator_step(h.state))

\* IRQ0: the handler runs to completion between two instructions of the
\* interrupted code.
Handler ==
    /\ pc = "heartbeat"
    /\ hb.handled < MaxBeats
    /\ hb' = metriplectic_heartbeat_handler(hb)
    /\ UNCHANGED <<poolVars, steps, pc, probe, gop, angle, vga, engineVars, evolveVars>>

\* metriplectic_heartbeat_wait(ticks) is entered.
WaitCall(ticks) ==
    /\ pc = "heartbeat"
    /\ hb.wait.at = "none"
    /\ hb' = [hb EXCEPT !.wait = [at |-> "entry", ticks |-> ticks,
                                  start_ticks |-> 0, called_at |-> hb.handled,
                                  since |-> 0]]
    /\ UNCHANGED <<poolVars, steps, pc, probe, gop, angle, vga, engineVars, evolveVars>>

\* uint32_t start_ticks = global_ticks;
WaitReadStart ==
    /\ pc = "heartbeat"
    /\ hb.wait.at = "entry"
    /\ hb' = [hb EXCEPT !.wait.at = "loop",
                        !.wait.start_ticks = hb.global_ticks]
    /\ UNCHANGED <<poolVars, steps, pc, probe, gop, angle, vga, engineVars, evolveVars>>

\* Mutant of WaitPending: the deadline start_ticks + ticks compared with
\* the counter.
WaitPending_Deadline(now, start_ticks, ticks) ==
    U32LT(now, U32Sub(start_ticks, U32Sub(0, ticks)))

\* The loop test (global_ticks - start_ticks) < ticks, in uint32_t.
WaitPending(now, start_ticks, ticks) ==
    U32LT(U32Sub(now, start_ticks), ticks)

\* One evaluation of the loop test: the body (pause) and the test again, or
\* the return; since then keeps the handler invocations made during the call.
WaitTest ==
    /\ pc = "heartbeat"
    /\ hb.wait.at = "loop"
    /\ hb' = IF WaitPending(hb.global_ticks, hb.wait.start_ticks, hb.wait.ticks)
             THEN hb
             ELSE [hb EXCEPT !.wait.at = "returned",
                             !.wait.since = hb.handled - hb.wait.called_at]
    /\ UNCHANGED <<poolVars, steps, pc, probe, gop, angle, vga, engineVars, evolveVars>>

NextHeartbeat ==
    \/ Handler
    \/ \E ticks \in WaitArgs : WaitCall(ticks)
    \/ WaitReadStart
    \/ WaitTest

SpecHeartbeat == InitHeartbeat /\ [][NextHeartbeat]_vars

\* The interrupted code runs whenever no handler does: the two steps of
\* metriplectic_heartbeat_wait are taken if they stay possible.
SpecHeartbeatFair ==
    SpecHeartbeat /\ WF_vars(WaitReadStart) /\ WF_vars(WaitTest)

(* ------------------------------------------------------------------ *)
(* The VGA text driver (src/drivers/vga_holographic.c)                 *)
(*                                                                     *)
(* vga_buffer is held as the function from the indexes of the cells    *)
(* that hold a character other than ' ' to that character; vga_row and *)
(* vga_col are uint8_t.                                                *)
(* ------------------------------------------------------------------ *)

VGA_WIDTH == 80

VGA_HEIGHT == 25

\* '\t', '\n', '\r', ' ' and 'A'.
CharTab == 9

CharNewline == 10

CharReturn == 13

CharSpace == 32

CharA == 65

\* x as a uint8_t.
U8(x) == x % 256

\* vga_buffer[index] = vga_make_entry(c, vga_color)
StoreCell(cells, index, c) ==
    IF c = CharSpace
    THEN [i \in DOMAIN cells \ {index} |-> cells[i]]
    ELSE [i \in DOMAIN cells \cup {index} |-> IF i = index THEN c ELSE cells[i]]

\* vga_holographic_clear: every cell blank, the cursor at the origin.
vga_holographic_clear(v) ==
    [v EXCEPT !.cells = <<>>, !.vga_row = 0, !.vga_col = 0]

\* vga_holographic_init: white on black, the screen cleared.
vga_holographic_init ==
    vga_holographic_clear([vga_row |-> 0, vga_col |-> 0, vga_color |-> 15,
                           cells |-> <<>>, last_index |-> -1, ops |-> 0])

\* Mutant of vga_holographic_set_cursor: the arguments stored unchecked.
vga_holographic_set_cursor_Unchecked(v, row, col) ==
    [v EXCEPT !.vga_row = row, !.vga_col = col]

\* vga_holographic_set_cursor: each coordinate stored only if on the screen.
vga_holographic_set_cursor(v, row, col) ==
    [v EXCEPT !.vga_row = IF row < VGA_HEIGHT THEN row ELSE v.vga_row,
              !.vga_col = IF col < VGA_WIDTH THEN col ELSE v.vga_col]

\* vga_holographic_scroll: rows 1 .. VGA_HEIGHT - 1 copied one row up, the
\* last row blanked, the cursor on the last row.
vga_holographic_scroll(v) ==
    [v EXCEPT
       !.cells = [i \in {j - VGA_WIDTH : j \in {k \in DOMAIN v.cells :
                                                  /\ k >= VGA_WIDTH
                                                  /\ k < VGA_WIDTH * VGA_HEIGHT}}
                    |-> v.cells[i + VGA_WIDTH]],
       !.vga_row = VGA_HEIGHT - 1]

\* The first part of vga_holographic_write_char: the branch on c.
PutChar(v, c) ==
    IF c = CharNewline THEN [v EXCEPT !.vga_col = 0, !.vga_row = U8(v.vga_row + 1)]
    ELSE IF c = CharReturn THEN [v EXCEPT !.vga_col = 0]
    ELSE IF c = CharTab THEN [v EXCEPT !.vga_col = U8(((v.vga_col + 4) \div 4) * 4)]
    ELSE [v EXCEPT !.cells = StoreCell(v.cells, v.vga_row * VGA_WIDTH + v.vga_col, c),
                   !.last_index = v.vga_row * VGA_WIDTH + v.vga_col,
                   !.vga_col = U8(v.vga_col + 1)]

\* if (vga_col >= VGA_WIDTH) { vga_col = 0; vga_row++; }
WrapColumn(v) ==
    IF v.vga_col >= VGA_WIDTH
    THEN [v EXCEPT !.vga_col = 0, !.vga_row = U8(v.vga_row + 1)]
    ELSE v

\* if (vga_row >= VGA_HEIGHT) vga_holographic_scroll();
ScrollAtEnd(v) == IF v.vga_row >= VGA_HEIGHT THEN vga_holographic_scroll(v) ELSE v

vga_holographic_write_char(v, c) == ScrollAtEnd(WrapColumn(PutChar(v, c)))

\* Driver calls per behaviour.
MaxVgaOps == 5

VgaChars == {CharTab, CharNewline, CharReturn, CharSpace, CharA}

\* Arguments of vga_holographic_set_cursor: on the screen, its last row and
\* columns, one past them, and the largest uint8_t.
CursorRows == {0, VGA_HEIGHT - 1, VGA_HEIGHT, 255}

CursorCols == {0, VGA_WIDTH - 4, VGA_WIDTH - 1, VGA_WIDTH, 255}

InitVga ==
    /\ pc = "vga"
    /\ PoolBooted(0)
    /\ ProbeIdle
    /\ EngineIdle
    /\ EvolveIdle
    /\ gop = [fn |-> "none", n |-> 0, delta |-> 0, phase |-> Wide(0, 0),
              x |-> 0, ret |-> 0, value |-> 0]
    /\ angle = AngleIdle
    /\ hb = HeartbeatIdle
    /\ vga = vga_holographic_init

Counted(v) == [v EXCEPT !.ops = v.ops + 1]

WriteChar(c) ==
    /\ pc = "vga"
    /\ vga.ops < MaxVgaOps
    /\ vga' = Counted(vga_holographic_write_char(vga, c))
    /\ UNCHANGED <<poolVars, steps, pc, probe, gop, angle, hb, engineVars, evolveVars>>

SetCursor(row, col) ==
    /\ pc = "vga"
    /\ vga.ops < MaxVgaOps
    /\ vga' = Counted(vga_holographic_set_cursor(vga, row, col))
    /\ UNCHANGED <<poolVars, steps, pc, probe, gop, angle, hb, engineVars, evolveVars>>

Scroll ==
    /\ pc = "vga"
    /\ vga.ops < MaxVgaOps
    /\ vga' = Counted(vga_holographic_scroll(vga))
    /\ UNCHANGED <<poolVars, steps, pc, probe, gop, angle, hb, engineVars, evolveVars>>

Clear ==
    /\ pc = "vga"
    /\ vga.ops < MaxVgaOps
    /\ vga' = Counted(vga_holographic_clear(vga))
    /\ UNCHANGED <<poolVars, steps, pc, probe, gop, angle, hb, engineVars, evolveVars>>

NextVga ==
    \/ \E c \in VgaChars : WriteChar(c)
    \/ \E row \in CursorRows, col \in CursorCols : SetCursor(row, col)
    \/ Scroll
    \/ Clear

SpecVga == InitVga /\ [][NextVga]_vars

(* ------------------------------------------------------------------ *)
(* Claims about the pool                                               *)
(* ------------------------------------------------------------------ *)

AllocateStep == steps' # steps /\ call'.op = "allocate"
FreeStep     == steps' # steps /\ call'.op = "free"
TimestepStep == call' # call /\ call'.op = "timestep"

RecordAddresses == {memmgr.pages[i].address : i \in PageIdx}

\* C1: on a fresh pool of capacity C = MAX_MEMORY_PAGES, with allocate calls
\* only, each of the first C calls returns a non-zero record address distinct
\* from every address returned before it, and every later call returns 0,
\* which is the address of no record.
C1_FillSucceedsCapacityTimes ==
    (pc = "fill" /\ Len(returned) >= 1) =>
        LET n == Len(returned)
        IN  IF n <= MAX_MEMORY_PAGES
            THEN /\ returned[n] # 0
                 /\ returned[n] \in RecordAddresses
                 /\ \A j \in 1 .. (n - 1) : returned[j] # returned[n]
            ELSE /\ returned[n] = 0
                 /\ 0 \notin RecordAddresses

\* The (C+1)-th call has been made and has failed.
C1_Witness ==
    /\ pc = "fill"
    /\ Len(returned) = MAX_MEMORY_PAGES + 1
    /\ returned[MAX_MEMORY_PAGES + 1] = 0
    /\ returned[MAX_MEMORY_PAGES] = PageAddr(MAX_MEMORY_PAGES - 1)

\* C2: whenever no record is Empty, memory_allocate returns 0 and changes
\* nothing (no record, not the occupied count).
C2_ExhaustedAllocateFails ==
    [][(AllocateStep /\ NonEmpty(memmgr.pages) = PageIdx)
          => (call'.ret = 0 /\ memmgr' = memmgr)]_vars

\* theta of record i after the dynamics step of the coming tick.
EvolvedTheta(i) ==
    metripletic_page_evolution(i, memmgr.pages[i], memmgr.total_pages).theta

\* C3: an Evaporating record leaves that state only by the forced reset of a
\* tick: it is not Empty right after memory_free, and a step takes it out of
\* Evaporating only if the step is a tick in which its theta has advanced
\* past 2*pi - 0.1, and then it is Empty at theta 0 and the occupied count
\* has gone down.
C3_EvaporatingLeavesOnlyByReset ==
    [][/\ FreeStep =>
            \A i \in PageIdx : memmgr.pages[i].address = call'.arg
                                  => memmgr'.pages[i].state # MEM_EMPTY
       /\ \A i \in PageIdx :
            (memmgr.pages[i].state = MEM_EVAPORATING
               /\ memmgr'.pages[i].state # MEM_EVAPORATING)
            => /\ TimestepStep
               /\ EvolvedTheta(i) > TWO_PI - SCALE \div 10
               /\ memmgr'.pages[i].state = MEM_EMPTY
               /\ memmgr'.pages[i].theta = 0
               /\ memmgr'.allocated_pages < memmgr.allocated_pages]_vars

\* C4: in the exhaustion scenario (pool filled, one failing call, the first
\* address freed, then ticks) the occupied count comes to capacity - 1: when
\* the ticks have brought the pool to rest, that is the count it is left with.
C4_FreedSlotIsReclaimed ==
    (pc = "sc_tick" /\ call.op = "timestep" /\ Quiescent)
        => memmgr.allocated_pages = MAX_MEMORY_PAGES - 1

\* C5: memory_free(address) changes at most the lifecycle state of the one
\* record whose address matches, to Evaporating; theta, O_n, size and the
\* other fields of that record, every other record, the occupied count and
\* the aggregates keep their values; with no matching record nothing changes.
C5_FreeFrame ==
    [][FreeStep =>
         LET hits == {i \in PageIdx : memmgr.pages[i].address = call'.arg}
         IN  /\ Cardinality(hits) <= 1
             /\ \A i \in PageIdx :
                  memmgr'.pages[i] =
                     IF i \in hits
                     THEN [memmgr.pages[i] EXCEPT !.state = MEM_EVAPORATING]
                     ELSE memmgr.pages[i]
             /\ [memmgr' EXCEPT !.pages = memmgr.pages] = memmgr
             /\ (hits = {} => memmgr' = memmgr)]_vars

\* memory_free has just re-marked a record that was Empty.
C5_Witness ==
    /\ call.op = "free"
    /\ freed_empty
    /\ \E i \in PageIdx : /\ memmgr.pages[i].address = call.arg
                          /\ memmgr.pages[i].state = MEM_EVAPORATING
                          /\ memmgr.pages[i].size = 0

\* The records Empty now, and the one among them of smallest theta (lowest
\* index on a tie).
EmptyRecords == {i \in PageIdx : memmgr.pages[i].state = MEM_EMPTY}

LeastThetaEmpty ==
    CHOOSE i \in EmptyRecords :
       \A j \in EmptyRecords :
          \/ memmgr.pages[i].theta < memmgr.pages[j].theta
          \/ (memmgr.pages[i].theta = memmgr.pages[j].theta /\ i <= j)

\* C6: a memory_allocate that returns an address has selected the Empty
\* record of smallest theta (lowest index on a tie): that record is now
\* Allocated at theta 0.1, its address is the one returned, the occupied
\* count is one higher and every other record is as before.
C6_AllocateSelectsLeastThetaEmpty ==
    [][(AllocateStep /\ call'.ret # 0) =>
          /\ EmptyRecords # {}
          /\ call'.ret = memmgr.pages[LeastThetaEmpty].address
          /\ memmgr'.pages[LeastThetaEmpty].theta = SCALE \div 10
          /\ memmgr'.pages[LeastThetaEmpty].state = MEM_ALLOCATED
          /\ memmgr'.allocated_pages = memmgr.allocated_pages + 1
          /\ \A j \in PageIdx \ {LeastThetaEmpty} :
                memmgr'.pages[j] = memmgr.pages[j]]_vars

\* The lifecycle: Empty -> Allocated -> Thermal -> Evaporating -> Empty, and
\* Allocated -> Evaporating.
LifecycleEdges ==
    {<<MEM_EMPTY, MEM_ALLOCATED>>, <<MEM_ALLOCATED, MEM_THERMAL>>,
     <<MEM_THERMAL, MEM_EVAPORATING>>, <<MEM_EVAPORATING, MEM_EMPTY>>,
     <<MEM_ALLOCATED, MEM_EVAPORATING>>}

\* C7: as long as memory_free is called on non-Empty records only, every
\* change of a record's lifecycle state follows an edge of the cycle; in
\* particular no tick takes an Allocated record to Empty.
C7_LifecycleFollowsCycle ==
    [][~freed_empty' =>
          \A i \in PageIdx :
             \/ memmgr'.pages[i].state = memmgr.pages[i].state
             \/ <<memmgr.pages[i].state, memmgr'.pages[i].state>>
                   \in LifecycleEdges]_vars

(* ------------------------------------------------------------------ *)
(* Claims about project_memory_state and the matrix engine             *)
(* ------------------------------------------------------------------ *)

AddJumpStep == lb_call' # lb_call /\ lb_call'.op = "add_jump"

\* C9: lindblad_add_jump_operator on a system holding LINDBLAD_MAX_OPS jump
\* operators reports a list-full error to its caller and leaves the system
\* (num_ops, every stored operator, adjoint and product) as it was; num_ops
\* never exceeds LINDBLAD_MAX_OPS.
C9_FullListIsReported ==
    [][AddJumpStep =>
          /\ lsys'.num_ops <= LINDBLAD_MAX_OPS
          /\ lsys.num_ops >= LINDBLAD_MAX_OPS
                => (lb_call'.ret = "list_full" /\ lsys' = lsys)]_vars

MatrixStep == pc = "matrix" /\ steps' # steps

\* C10: no matrix primitive or builder writes an element at a row or column
\* index >= LINDBLAD_MAX_DIM; a request for more rows or columns than that is
\* rejected with a dimension-exceeded error and leaves the destination as it
\* was.
C10_NoWritePastMaxDim ==
    [][MatrixStep =>
          /\ lb_call'.max_row < LINDBLAD_MAX_DIM
          /\ lb_call'.max_col < LINDBLAD_MAX_DIM
          /\ (lb_call'.req[1] > LINDBLAD_MAX_DIM
                \/ lb_call'.req[2] > LINDBLAD_MAX_DIM)
                => (lb_call'.ret = "dimension_exceeded" /\ mat' = mat)]_vars

(* ------------------------------------------------------------------ *)
(* Claims about the integrator                                         *)
(* ------------------------------------------------------------------ *)

\* C11: lindblad_evolve(sys, rho, t_total, dt) returns, for every t_total and
\* every dt, and when it returns it has applied exactly the smallest number k
\* of RK4 steps with k * dt >= t_total; with t_total <= 0 that is no step,
\* and rho is as it was given.  Every call drawn here that has such a k has
\* one of at most 100, so a call that returns never runs the loop body
\* MaxCounted times.
C11_EvolveAppliesLeastSteps ==
    /\ ev.applied < MaxCounted
    /\ pc = "ev_done" =>
          /\ ev.applied * ev.dt >= ev.t_total
          /\ \A k \in 0 .. MaxCounted :
                k * ev.dt >= ev.t_total => ev.applied <= k
          /\ ev.t_total <= 0 => (ev.applied = 0 /\ density = ev.rho0)

\* ceil(t_total / dt) for dt > 0.
StepsToCover(t_total, dt) == (t_total + dt - 1) \div dt

\* C11, amended: the call returns exactly when the accumulated time - dt
\* added once per step, from 0 - has reached t_total.  With t_total <= 0 it
\* returns at once, no step applied and rho as given.  With t_total > 0 and
\* dt > 0 it returns after the smallest number k of steps with
\* k * dt >= t_total and never applies more.  With t_total > 0 and dt <= 0
\* it does not return.
C11_EvolveStepsUntilTimeReached ==
    /\ ev.applied < MaxCounted => ev.t = ev.applied * ev.dt
    /\ pc = "ev_done" =>
          /\ ev.t >= ev.t_total
          /\ ev.applied > 0 => ev.t - ev.dt < ev.t_total
          /\ ev.t_total <= 0 => (ev.applied = 0 /\ density = ev.rho0)
          /\ (ev.t_total > 0 /\ ev.dt > 0)
                => ev.applied = StepsToCover(ev.t_total, ev.dt)
    /\ (ev.t_total > 0 /\ ev.dt > 0)
          => ev.applied <= StepsToCover(ev.t_total, ev.dt)
    /\ (ev.t_total > 0 /\ ev.dt <= 0) => pc = "ev_loop"

\* The call over 0.3 in steps of 0.2 has returned: two steps, the time 0.4.
C11_Witness ==
    /\ pc = "ev_done"
    /\ ev.t_total = 3000
    /\ ev.dt = 2000
    /\ ev.applied = 2
    /\ density # ev.rho0

\* The checkpoint of sample k: t_start + k * (t_end - t_start) / (num_samples - 1).
Checkpoint(lz, k) == lz.p.t_start + k * lz.dt_sample

\* C12: when laser_evolve is called with num_samples >= 2 and dt > 0, by the
\* time it returns every obs[0 .. num_samples-1] has been written exactly
\* once, in increasing order, each at its evenly spaced checkpoint (the last
\* one at t_end), and no index >= num_samples is ever written.
C12_EverySampleWrittenAtCheckpoint ==
    /\ \A i \in 1..Len(laser.writes) : laser.writes[i] < laser.num_samples
    /\ pc = "lz_done" =>
          /\ laser.writes = [i \in 1..laser.num_samples |-> i - 1]
          /\ DOMAIN laser.obs = 0..(laser.num_samples - 1)
          /\ \A k \in DOMAIN laser.obs :
                laser.obs[k].time = Checkpoint(laser, k)
          /\ Checkpoint(laser, laser.num_samples - 1) = laser.p.t_end

\* The RK4 stages k1..k4 of one step from rho, as lindblad_step_rk4 forms them.
StageK1(sys, rho, dt) == lindblad_rhs(sys, rho)

StageK2(sys, rho, dt) ==
    lindblad_rhs(sys, cmatrix_add_scaled(ZeroStorage, rho, StageK1(sys, rho, dt),
                                         complex_make(RoundDiv(dt, 2), 0)))

StageK3(sys, rho, dt) ==
    lindblad_rhs(sys, cmatrix_add_scaled(ZeroStorage, rho, StageK2(sys, rho, dt),
                                         complex_make(RoundDiv(dt, 2), 0)))

StageK4(sys, rho, dt) ==
    lindblad_rhs(sys, cmatrix_add_scaled(ZeroStorage, rho, StageK3(sys, rho, dt),
                                         complex_make(dt, 0)))

C16_EmptyRecordsAtZeroAngle ==
    \A i \in PageIdx :
        memmgr.pages[i].state = MEM_EMPTY => memmgr.pages[i].theta = 0

\* C19: in every reachable state the operator value of every pool record, at
\* every record index, is at most 1 in magnitude, the per-page step taking it
\* from the bounded operator parity(n) * cos(pi * phi * n + delta).
C19_RecordOperatorValueBounded ==
    \A i \in PageIdx : Abs(memmgr.pages[i].O_n) <= SCALE

(* ------------------------------------------------------------------ *)
(* Claims about the cached adjoints                                    *)
(* ------------------------------------------------------------------ *)

\* The non-negative r with r * r = x, for the rates the driver passes.
ExactSqrt(x) == CHOOSE r \in 0 .. 2 * SCALE : r * r = x * SCALE

\* A is B with every entry multiplied by the real factor s.
IsScaled(A, B, s) ==
    /\ A.rows = B.rows /\ A.cols = B.cols
    /\ \A c \in Stored(B.rows, B.cols) :
          A.data[c] = complex_make(Mul(s, B.data[c].re), Mul(s, B.data[c].im))

\* A is the conjugate transpose of B.
IsAdjoint(A, B) ==
    /\ A.rows = B.cols /\ A.cols = B.rows
    /\ \A i \in 0 .. B.rows - 1, j \in 0 .. B.cols - 1 :
          /\ A.data[<<j, i>>].re = B.data[<<i, j>>].re
          /\ A.data[<<j, i>>].im = -B.data[<<i, j>>].im

\* C17: across every call of lindblad_init, lindblad_set_hamiltonian and
\* lindblad_add_jump_operator, an insertion stores sqrt(gamma) times the
\* operator it was given; for every k < num_ops L_dag[k] is the conjugate
\* transpose of L_ops[k] and L_dag_L[k] is the product L_dag[k] L_ops[k]; and
\* no call changes the three matrices of an index that was and stays below
\* num_ops.
C17_CachedAdjointsConsistent ==
    [][/\ (AddJumpStep /\ lsys.num_ops < LINDBLAD_MAX_OPS) =>
            /\ lsys'.num_ops = lsys.num_ops + 1
            /\ IsScaled(lsys'.L_ops[lsys.num_ops],
                        create_annihilation_cavity(ZeroStorage, lsys.dim),
                        ExactSqrt(lb_call'.gamma))
       /\ \A k \in OpIdx : k < lsys'.num_ops =>
            /\ IsAdjoint(lsys'.L_dag[k], lsys'.L_ops[k])
            /\ lsys'.L_dag_L[k]
                  = cmatrix_mul(ZeroStorage, lsys'.L_dag[k], lsys'.L_ops[k])
       /\ \A k \in OpIdx : (k < lsys.num_ops /\ k < lsys'.num_ops) =>
            /\ lsys'.L_ops[k] = lsys.L_ops[k]
            /\ lsys'.L_dag[k] = lsys.L_dag[k]
            /\ lsys'.L_dag_L[k] = lsys.L_dag_L[k]]_vars

\* After a second lindblad_init, on a system of another dimension, operators
\* with different rates are registered over and beside what the slots held.
C17_Witness ==
    /\ pc = "lindblad_again"
    /\ lsys.num_ops >= 3
    /\ lsys.L_ops[0].rows = 3
    /\ lsys.L_ops[3].rows = 0
    /\ lsys.L_ops[0] # lsys.L_ops[1]
    /\ lsys.L_dag_L[1].data[<<1, 1>>].re > 0

(* ------------------------------------------------------------------ *)
(* Claims about the operator module                                    *)
(* ------------------------------------------------------------------ *)

\* C15: the operator value at n = 0 with delta = 0 is exactly 1 (FP_ONE in
\* Q16.16), and for no n in 1..9999 does the operator value equal the value
\* at n = 0.
C15_NoRepeatOfFirstValue ==
    (gop.fn = "get_golden_operator_fixed" /\ gop.delta = 0) =>
        /\ gop.n = 0 => gop.ret = FP_ONE
        /\ (gop.n >= 1 /\ gop.n < ScanLimit) =>
              gop.ret # get_golden_operator_fixed(0, 0)

\* C20: the phase computation of get_golden_operator_fixed never overflows or
\* truncates: for every n >= 0 and every delta the value handed to
\* dit_cos_fixed equals the 64-bit phase
\* ((PI_FP * PHI_CONJUGATE_FP) >> 16) * n + delta.
C20_PhaseFitsFixed ==
    gop.fn = "get_golden_operator_fixed" =>
        /\ FitsFixed(gop.phase)
        /\ Wide(gop.x \div FP_ONE, gop.x % FP_ONE) = gop.phase

ResetByTick ==
    {i \in NonEmpty(memmgr.pages) :
        memmgr'.pages[i].state = MEM_EMPTY /\ memmgr'.pages[i].theta = 0}

MeanOverNonEmpty(f) ==
    IF NonEmpty(memmgr.pages) = {} THEN 0
    ELSE RoundDiv(SumNonEmpty(memmgr.pages, f), Cardinality(NonEmpty(memmgr.pages)))

\* C22: after every memory_timestep, global_theta (meanAngle) and
\* total_viscosity (meanViscosity) are the sums of theta and of viscosity
\* over the non-Empty records divided by the number of non-Empty records, so
\* that meanAngle = centroid * 2*pi; total_entropy is the sum of entropy over
\* the non-Empty records; with no non-Empty record all four are 0.
C22_AggregatesAreMeansOverNonEmpty ==
    call.op = "timestep" =>
        /\ memmgr.global_theta =
              MeanOverNonEmpty([i \in PageIdx |-> memmgr.pages[i].theta])
        /\ memmgr.total_viscosity =
              MeanOverNonEmpty([i \in PageIdx |-> memmgr.pages[i].thermal_viscosity])
        /\ memmgr.centroid_z = RoundDiv(memmgr.global_theta * SCALE, TWO_PI)
        /\ memmgr.total_entropy =
              SumNonEmpty(memmgr.pages, [i \in PageIdx |-> memmgr.pages[i].entropy])
        /\ (NonEmpty(memmgr.pages) = {} =>
               /\ memmgr.centroid_z = 0
               /\ memmgr.global_theta = 0
               /\ memmgr.total_viscosity = 0
               /\ memmgr.total_entropy = 0)

\* C23: after every memory_timestep, metric_determinant = 1 + lambda * (mean
\* of the density over the non-Empty records), lambda = 0.1, each non-Empty
\* record counted once and no Empty record counted; curvature =
\* (metric_determinant - 1) / occupied count; with an occupied count of 0
\* the determinant is 1 and the curvature 0; and the loop reads no record
\* outside pages[] (the occupied count is within the array).
C23_GeometryFromNonEmptyDensity ==
    call.op = "timestep" =>
        /\ memmgr.allocated_pages \in 0 .. MAX_MEMORY_PAGES
        /\ memmgr.metric_determinant =
              SCALE + RoundDiv(MeanOverNonEmpty(
                                  [i \in PageIdx |-> PageDensity(memmgr.pages[i])]), 10)
        /\ memmgr.curvature =
              RoundDiv(memmgr.metric_determinant - SCALE,
                       IF memmgr.allocated_pages > 0
                       THEN memmgr.allocated_pages ELSE 1)
        /\ (memmgr.allocated_pages = 0 =>
               memmgr.metric_determinant = SCALE /\ memmgr.curvature = 0)

\* C25: as long as memory_free is given only addresses that memory_allocate
\* returned before, no address is handed out twice while in use: an address
\* returned by memory_allocate was not returned by an earlier call, or has
\* been passed to memory_free since (0, the failure value, is no address).
C25_NoAddressHandedOutTwice ==
    [][(AllocateStep /\ call'.ret # 0 /\ ~ledger.stray)
          => call'.ret \notin ledger.in_use]_vars

\* C26: in every state reached from memory_init by memory_allocate,
\* memory_timestep and memory_free (free given only addresses that
\* memory_allocate returned before), allocated_pages is the number of
\* records whose lifecycle state is not Empty.
C26_CountIsNumberOfNonEmpty ==
    ~ledger.stray => memmgr.allocated_pages = Cardinality(NonEmpty(memmgr.pages))

\* C27: memory_allocate succeeds whenever the pool has room: in any state
\* reached by memory_allocate, memory_free and memory_timestep in which at
\* least one record is Empty, the next memory_allocate returns the address
\* of a record that was Empty, not the failure value 0.
C27_AllocateSucceedsWhileRoom ==
    [][(AllocateStep /\ EmptyRecords # {})
          => /\ call'.ret # 0
             /\ \E i \in EmptyRecords : memmgr.pages[i].address = call'.ret]_vars

\* C28: the occupied count never wraps: after any sequence of
\* memory_allocate, memory_timestep and memory_free (free on any address,
\* that of an Empty record included), 0 <= allocated_pages <= total_pages;
\* no decrement is executed at 0 and no increment at total_pages.
C28_CountWithinPool ==
    /\ memmgr.allocated_pages >= 0
    /\ memmgr.allocated_pages <= memmgr.total_pages

(* ------------------------------------------------------------------ *)
(* Claims about the heartbeat                                          *)
(* ------------------------------------------------------------------ *)

HandlerStep == hb'.handled # hb.handled

\* C24: for the global GoldenState, in every state reached from
\* golden_operator_init by heartbeat ticks the stored operator value is the
\* operator at the stored step index, O_n = golden_operator_compute(n);
\* every tick makes one golden_operator_step, which takes n up by exactly
\* one, and counts one tick, so that n - global_ticks (in the counters'
\* 32-bit arithmetic) stays what it was.
C24_OperatorValueAtStepIndex ==
    /\ [](hb.state.O_n = golden_operator_compute(hb.state.n))
    /\ [][HandlerStep =>
            /\ hb'.state.n = hb.state.n + 1
            /\ hb'.handled = hb.handled + 1
            /\ U32Sub(hb'.state.n, hb'.global_ticks)
                  = U32Sub(hb.state.n, hb.global_ticks)]_vars

\* Five ticks after an initialisation two ticks before the counter wraps:
\* the counter has passed 0 and the state has been stepped five times.
C24_Witness ==
    /\ pc = "heartbeat"
    /\ hb.handled = 5
    /\ hb.global_ticks = 3
    /\ hb.state.n = 5
    /\ hb.state.O_n = golden_operator_compute(5)
    /\ hb.state.theta > 0

\* C30: metriplectic_heartbeat_wait(k), interleaved with the handler,
\* returns only after at least k handler invocations have been made since
\* the call started, also when global_ticks wraps during the wait; and once
\* k invocations have been made since the loop began it does return.
C30_WaitCoversTicks ==
    /\ [](hb.wait.at = "returned" => ~U32LT(hb.wait.since, hb.wait.ticks))
    /\ ((hb.wait.at = "loop"
           /\ ~U32LT(U32Sub(hb.global_ticks, hb.wait.start_ticks), hb.wait.ticks))
        ~> hb.wait.at = "returned")

\* A wait of three ticks begun two ticks before the counter wraps has
\* returned, three handler invocations after the call.
C30_Witness ==
    /\ hb.wait.at = "returned"
    /\ hb.wait.ticks = 3
    /\ hb.wait.start_ticks = BeforeWrap(2)
    /\ hb.wait.since = 3
    /\ hb.global_ticks = 1

(* ------------------------------------------------------------------ *)
(* Claims about the VGA driver                                         *)
(* ------------------------------------------------------------------ *)

\* C29: after vga_holographic_init and any sequence of write_char (any
\* character, newline, carriage return and tab included), set_cursor (any
\* arguments), scroll and clear, vga_row < VGA_HEIGHT and
\* vga_col < VGA_WIDTH, and every cell a character was stored in lies at an
\* index in [0, VGA_WIDTH * VGA_HEIGHT).
C29_CursorOnScreen ==
    pc = "vga" =>
        /\ vga.vga_row \in 0 .. (VGA_HEIGHT - 1)
        /\ vga.vga_col \in 0 .. (VGA_WIDTH - 1)
        /\ vga.last_index \in -1 .. (VGA_WIDTH * VGA_HEIGHT - 1)
        /\ DOMAIN vga.cells \subseteq 0 .. (VGA_WIDTH * VGA_HEIGHT - 1)

\* A character stored in the last cell of the screen: the column wrapped,
\* the row passed the end, the screen scrolled and the character is now one
\* row up.
C29_Witness ==
    /\ pc = "vga"
    /\ vga.last_index = VGA_WIDTH * VGA_HEIGHT - 1
    /\ vga.vga_row = VGA_HEIGHT - 1
    /\ vga.vga_col = 0
    /\ (VGA_WIDTH * (VGA_HEIGHT - 1) - 1) \in DOMAIN vga.cells

====
